---- MODULE Spec2Model ----
(***************************************************************************)
(* Emergency Response USSD system (Digital_Arkshift).                      *)
(*                                                                         *)
(* The model covers the USSD session state machine (app/ussd/routes.py),   *)
(* the matching service (app/services/matching_service.py), the duplicate  *)
(* and rate guards (app/security.py, app/models.py) and the stored records *)
(* they read and write.  The store is the SQL database behind the ORM:     *)
(* a statement reads the committed rows, an ORM object keeps the attribute *)
(* values it was loaded with until the unit of work commits, and a commit  *)
(* writes the attribute values held in memory (absolute values, not        *)
(* deltas).                                                                *)
(*                                                                         *)
(* Strings are sequences of one-character strings, so that split, strip,   *)
(* int() and the SQL ILIKE pattern match are computed, not assumed.        *)
(* Times are minutes since the start of the run.                           *)
(***************************************************************************)
EXTENDS Integers, Sequences, FiniteSets, TLC

(***************************************************************************)
(* Bounds of the model                                                     *)
(***************************************************************************)
MaxCalls == 5       \* inbound USSD calls in a run of Spec
MaxCap == 2         \* largest total capacity of a resource
MaxQty == 2         \* largest quantity_needed of a backlog request

(***************************************************************************)
(* Program constants (minutes unless stated otherwise)                     *)
(***************************************************************************)
SessionTTL == 10            \* USSDSession.__init__ / extend_session
AutoMatchGrace == 5         \* auto_match_pending_requests
DuplicateWindow == 30       \* check_duplicate_requests default
RateWindow == 60            \* is_rate_limited: one hour
UssdRateLimit == 3          \* process_request: is_rate_limited('ussd', 3)
SuspiciousWindow == 5       \* detect_suspicious_activity: five minutes
SuspiciousActions == 5      \* more than 5 actions
SuspiciousLocations == 3    \* more than 3 locations
MaxMenuOptions == 5         \* _handle_location_input: resources[:5]


(***************************************************************************)
(* Strings                                                                 *)
(***************************************************************************)
UpperChars == <<"A","B","C","D","E","F","G","H","I","J","K","L","M",
                "N","O","P","Q","R","S","T","U","V","W","X","Y","Z">>
LowerChars == <<"a","b","c","d","e","f","g","h","i","j","k","l","m",
                "n","o","p","q","r","s","t","u","v","w","x","y","z">>
DigitChars == <<"0","1","2","3","4","5","6","7","8","9">>

\* str.lower() on one character
LowerChar(c) ==
    IF \E i \in 1..Len(UpperChars) : UpperChars[i] = c
    THEN LowerChars[CHOOSE i \in 1..Len(UpperChars) : UpperChars[i] = c]
    ELSE c

\* str.lower()
Lower(s) == [i \in 1..Len(s) |-> LowerChar(s[i])]

IsSpace(c) == c = " "

RECURSIVE LStrip(_)
LStrip(s) == IF s # <<>> /\ IsSpace(Head(s)) THEN LStrip(Tail(s)) ELSE s

RECURSIVE RStrip(_)
RStrip(s) ==
    IF s # <<>> /\ IsSpace(s[Len(s)]) THEN RStrip(SubSeq(s, 1, Len(s) - 1)) ELSE s

\* str.strip()
Strip(s) == RStrip(LStrip(s))

\* str.split(sep): the list of the pieces between the separators
RECURSIVE SplitAcc(_, _, _)
SplitAcc(s, sep, cur) ==
    IF s = <<>> THEN <<cur>>
    ELSE IF Head(s) = sep THEN <<cur>> \o SplitAcc(Tail(s), sep, <<>>)
    ELSE SplitAcc(Tail(s), sep, Append(cur, Head(s)))

Split(s, sep) == SplitAcc(s, sep, <<>>)

IsDigit(c) == \E i \in 1..Len(DigitChars) : DigitChars[i] = c
DigitVal(c) == (CHOOSE i \in 1..Len(DigitChars) : DigitChars[i] = c) - 1

RECURSIVE DigitsValue(_, _)
DigitsValue(s, acc) ==
    IF s = <<>> THEN acc ELSE DigitsValue(Tail(s), 10 * acc + DigitVal(Head(s)))

\* int(s): ok is FALSE where Python raises ValueError
ParseInt(s) ==
    LET t == Strip(s)
        signed == t # <<>> /\ Head(t) \in {"+", "-"}
        d == IF signed THEN Tail(t) ELSE t
        good == d # <<>> /\ \A i \in 1..Len(d) : IsDigit(d[i])
    IN  [ok |-> good,
         val |-> IF good
                 THEN (IF signed /\ Head(t) = "-" THEN 0 - DigitsValue(d, 0)
                       ELSE DigitsValue(d, 0))
                 ELSE 0]

\* SQL LIKE: % matches any run of characters, _ any one character
RECURSIVE LikeMatch(_, _)
LikeMatch(s, p) ==
    IF p = <<>> THEN s = <<>>
    ELSE IF Head(p) = "%"
         THEN LikeMatch(s, Tail(p)) \/ (s # <<>> /\ LikeMatch(Tail(s), p))
         ELSE /\ s # <<>>
              /\ (Head(p) = "_" \/ Head(p) = Head(s))
              /\ LikeMatch(Tail(s), Tail(p))

\* column.ilike(pattern): lower(column) LIKE lower(pattern)
ILike(s, p) == LikeMatch(Lower(s), Lower(p))

(***************************************************************************)
(* The values the model draws its inputs from                              *)
(***************************************************************************)
Star == <<"*">>
Lokoja == <<"L","o","k","o","j","a">>
Osara == <<"O","s","a","r","a">>

LabelLokoja == Lokoja \o <<",", " ", "K", "o", "g", "i">>
LabelGanaja == <<"G","a","n","a","j","a",","," ">> \o Lokoja
LabelOsara == Osara \o <<",", " ", "K", "o", "g", "i">>

Txt(tokens) ==
    LET RECURSIVE Join(_)
        Join(ts) == IF Len(ts) = 1 THEN ts[1]
                    ELSE ts[1] \o Star \o Join(Tail(ts))
    IN  Join(tokens)

\* the cumulative texts of the end-to-end flow
FlowTexts ==
    << <<>>,
       <<"1">>,
       Txt(<<<<"1">>, Lokoja>>),
       Txt(<<<<"1">>, Lokoja, <<"1">>>>),
       Txt(<<<<"1">>, Lokoja, <<"1">>, <<"1">>>>) >>

\* cumulative texts, one for each kind of latest token
Texts ==
    { <<>>,
      <<"1">>, <<"0">>, <<"9">>,
      Txt(<<<<"1">>, Lokoja>>),
      Txt(<<<<"1">>, <<"L", " ">>>>),
      Txt(<<<<"1">>, Osara>>),
      Txt(<<<<"1">>, Lokoja, <<"x">>>>),
      Txt(<<<<"1">>, Lokoja, <<"1">>, <<"2">>>>) }

Callers == {1, 2}                   \* subscribers (user ids)
SessionIds == {"s1", "s2"}
BadSessionId == "s 1"               \* rejected by ^[a-zA-Z0-9_-]+$
BodyKinds == {"form", "json", "badjson", "nodata", "nofield"}
ResourceIds == {1, 2}
NoResource == 0                     \* resource_id IS NULL
NoUser == 0                         \* user_id IS NULL
NoTime == 0 - 1                     \* timestamp IS NULL
NoCoord == 0 - 1000                 \* latitude or longitude IS NULL
NoDistance == 0 - 1                 \* object without a distance attribute
Infinity == 1000000                 \* float('inf')


(***************************************************************************)
(* State                                                                   *)
(***************************************************************************)
VARIABLES
    now,        \* datetime.utcnow(), in minutes
    calls,      \* number of inbound calls so far
    users,      \* ids of the rows of table users
    sessions,   \* table ussd_sessions: session_id -> row
    resources,  \* table resources: id -> row
    requests,   \* table emergency_requests: sequence of rows, id = index
    auditLogs,  \* table audit_logs: sequence of rows
    nameHash,   \* hash(resource.name) % 10 of this process
    inflight,   \* confirmations between their reads and their commit
    am,         \* auto-match runs between their query and their commit
    summary,    \* result of the last finished auto-match run
    last,       \* history: the last answered inbound call
    drift,      \* time between two successive clock reads of one handler
    gateway,    \* what a send of each kind of notification does at present
    cleaned     \* count returned by the last cleanup_expired_sessions

vars == <<now, calls, users, sessions, resources, requests, auditLogs,
          nameHash, inflight, am, summary, last, drift, gateway, cleaned>>

(***************************************************************************)
(* Rows                                                                    *)
(***************************************************************************)
\* USSDSession.get_session_data of a row whose session_data is NULL: {}
EmptyData ==
    [resource_type |-> "", location |-> <<>>, resources |-> <<>>,
     selected_resource_id |-> NoResource]

\* USSDSession.__init__ and the column defaults applied by the INSERT:
\* expires_at is computed in __init__, last_activity at the flush
NewSession(user_id) ==
    [user_id |-> user_id, current_step |-> "start", data |-> EmptyData,
     last_activity |-> now + drift, expires_at |-> now + SessionTTL]

\* USSDSession.is_expired
is_expired(session) == now > session.expires_at

\* USSDSession.extend_session: two reads of the clock
extend_session(session) ==
    [session EXCEPT !.expires_at = now + SessionTTL,
                    !.last_activity = now + drift]

\* variant of update_capacity without the availability test
update_capacity_unchecked(resource, used_capacity) ==
    [ok |-> TRUE,
     resource |-> [resource EXCEPT !.available_capacity = @ - used_capacity]]

\* Resource.update_capacity on the attribute values held in memory
update_capacity(resource, used_capacity) ==
    IF resource.available_capacity >= used_capacity
    THEN [ok |-> TRUE,
          resource |-> [resource EXCEPT !.available_capacity = @ - used_capacity]]
    ELSE [ok |-> FALSE, resource |-> resource]

\* EmergencyRequest.__init__ with the column defaults of the INSERT
NewRequest(user_id, resource_type, location, resource_id, total_cost) ==
    [user_id |-> user_id, resource_type |-> resource_type,
     location |-> location, resource_id |-> resource_id,
     quantity_needed |-> 1, status |-> "pending", created_at |-> now,
     matched_at |-> NoTime, confirmed_at |-> NoTime, priority_level |-> 1,
     total_cost |-> total_cost, latitude |-> NoCoord, longitude |-> NoCoord,
     origin |-> "ussd"]

RemoveKey(f, k) == [x \in DOMAIN f \ {k} |-> f[x]]
PutKey(f, k, v) == [x \in DOMAIN f \cup {k} |-> IF x = k THEN v ELSE f[x]]

(***************************************************************************)
(* Phone numbers and request validation (SecurityService)                  *)
(***************************************************************************)
\* SecurityService.validate_phone_number
validate_phone_number(phone) == phone.fmt \in {"+234", "0", "bare"}

\* SecurityService.normalize_phone_number followed by hash_phone_number:
\* the three accepted spellings of a subscriber give the same caller
normalize_phone_number(phone) == phone.sub

\* SecurityService.validate_ussd_request
validate_ussd_request(body, sid, phone) ==
    IF body = "nofield" THEN [ok |-> FALSE, msg |-> "Missing required field"]
    ELSE IF ~validate_phone_number(phone)
         THEN [ok |-> FALSE, msg |-> "Invalid phone number format"]
    ELSE IF sid = BadSessionId
         THEN [ok |-> FALSE, msg |-> "Invalid session ID format"]
    ELSE [ok |-> TRUE, msg |-> "Valid request"]

(***************************************************************************)
(* Rate and anomaly guards                                                 *)
(***************************************************************************)
\* User.is_rate_limited(action_type, limit_per_hour)
is_rate_limited(user_id, action_type, limit_per_hour) ==
    LET Recent(l) == /\ l.user_id = user_id
                     /\ l.action = action_type
                     /\ l.timestamp > now - RateWindow
        recent_actions ==
            Cardinality({i \in 1..Len(auditLogs) : Recent(auditLogs[i])})
    IN  recent_actions >= limit_per_hour

\* SecurityService.detect_suspicious_activity(user_id, action_type, details)
detect_suspicious_activity(user_id, action_type) ==
    LET Recent(l) == /\ l.user_id = user_id
                     /\ l.action = action_type
                     /\ l.timestamp > now - SuspiciousWindow
        recent_actions ==
            Cardinality({i \in 1..Len(auditLogs) : Recent(auditLogs[i])})
        unique_locations ==
            { auditLogs[i].location : i \in
                { j \in 1..Len(auditLogs) :
                    /\ auditLogs[j].user_id = user_id
                    /\ auditLogs[j].timestamp > now - RateWindow
                    /\ auditLogs[j].has_details
                    /\ auditLogs[j].has_location } }
    IN  IF user_id = NoUser THEN FALSE
        ELSE \/ recent_actions > SuspiciousActions
             \/ Cardinality(unique_locations) > SuspiciousLocations

\* the row the audit_log('ussd_request') decorator adds after the view:
\* g.current_user_id is never set on this route and details is None
\* (caller and new_session are history: who called, and whether the call
\* carried a session id without a live session)
UssdAuditRow(caller, new_session) ==
    [user_id |-> NoUser, action |-> "ussd_request", timestamp |-> now,
     has_details |-> FALSE, has_location |-> FALSE, location |-> <<>>,
     caller |-> caller, new_session |-> new_session]

\* limiter.limit(limit, key_func=...) inside rate_limit_by_phone builds a
\* decorator object and returns; it counts nothing and never raises
LimiterLimitRaises(phone) == FALSE

\* variant of check_duplicate_requests that finds nothing
check_duplicate_requests_off(user_id, resource_type, location, time_window_minutes) ==
    FALSE

\* FraudDetection.check_duplicate_requests
check_duplicate_requests(user_id, resource_type, location, time_window_minutes) ==
    \E i \in 1..Len(requests) :
        /\ requests[i].user_id = user_id
        /\ requests[i].resource_type = resource_type
        /\ requests[i].location = location
        /\ requests[i].created_at > now - time_window_minutes
        /\ requests[i].status # "cancelled"


(***************************************************************************)
(* Matching service                                                        *)
(***************************************************************************)
\* list.sort(key=...): stable, ascending in key; key is a function on the
\* elements of seq
RECURSIVE InsertByKey(_, _, _)
InsertByKey(sorted, x, key) ==
    IF sorted = <<>> THEN <<x>>
    ELSE IF key[x] < key[Head(sorted)] THEN <<x>> \o sorted
    ELSE <<Head(sorted)>> \o InsertByKey(Tail(sorted), x, key)

RECURSIVE SortByKey(_, _)
SortByKey(seq, key) ==
    IF seq = <<>> THEN <<>>
    ELSE InsertByKey(SortByKey(SubSeq(seq, 1, Len(seq) - 1), key),
                     seq[Len(seq)], key)

\* the rows of a table in the order a query without ORDER BY returns them
RECURSIVE IdsAscending(_)
IdsAscending(S) ==
    IF S = {} THEN <<>>
    ELSE LET m == CHOOSE x \in S : \A y \in S : x <= y
         IN  <<m>> \o IdsAscending(S \ {m})

\* MAX_LOCATION_RADIUS_KM, and the radius_km the USSD handler passes
MaxLocationRadiusKm == 50

\* truth value of a coordinate: None and 0.0 are false
Truthy(x) == x # NoCoord /\ x # 0

\* 16 * sin(d/2)**2 for an angle d that is a multiple of 60 degrees
SinSqHalf16(d) ==
    LET m == (d \div 60) % 6
    IN  IF m = 0 THEN 0
        ELSE IF m = 1 \/ m = 5 THEN 4
        ELSE IF m = 2 \/ m = 4 THEN 12
        ELSE 16

\* 2 * cos(lat) for a latitude of -60, 0 or 60 degrees
Cos2(lat) == IF lat = 0 THEN 2 ELSE 1

\* 2 * asin(sqrt(a)) * 6371 for a = k / 16, rounded to the kilometre
ArcKm ==
    <<3220, 4605, 5706, 6672, 7559, 8398, 9209, 10008, 10806, 11617, 12457,
      13343, 14309, 15411, 16795, 20015>>

\* MatchingService.calculate_distance (haversine) on coordinates that are
\* multiples of 60 degrees
calculate_distance(lat1, lon1, lat2, lon2) ==
    IF ~(Truthy(lat1) /\ Truthy(lon1) /\ Truthy(lat2) /\ Truthy(lon2))
    THEN Infinity
    ELSE LET a16 == SinSqHalf16(lat2 - lat1)
                    + (Cos2(lat1) * Cos2(lat2) * SinSqHalf16(lon2 - lon1)) \div 4
         IN  IF a16 = 0 THEN 0 ELSE ArcKm[a16]

\* the base query of find_nearby_resources: active resources of the type
\* with capacity
BaseQuery(dbrow, resource_type) ==
    { r \in DOMAIN dbrow :
        /\ dbrow[r].resource_type = resource_type
        /\ dbrow[r].is_active
        /\ dbrow[r].available_capacity > 0 }

\* the resources the coordinate branch keeps: within radius_km of the caller
Nearby(dbrow, resource_type, radius_km, user_lat, user_lon) ==
    { r \in BaseQuery(dbrow, resource_type) :
        /\ Truthy(dbrow[r].latitude)
        /\ Truthy(dbrow[r].longitude)
        /\ calculate_distance(user_lat, user_lon, dbrow[r].latitude,
                              dbrow[r].longitude) <= radius_km }

\* the rows the text branch selects
TextHits(dbrow, resource_type, location) ==
    LET pattern1 == <<"%">> \o location \o <<"%">>
        pattern2 == <<"%">> \o Lower(location) \o <<"%">>
    IN  { r \in BaseQuery(dbrow, resource_type) :
            \/ ILike(dbrow[r].location, pattern1)
            \/ ILike(dbrow[r].location, pattern2) }

\* the rows a call of find_nearby_resources loads into the identity map
QueryLoads(dbrow, resource_type, location, user_lat, user_lon) ==
    IF Truthy(user_lat) /\ Truthy(user_lon)
    THEN BaseQuery(dbrow, resource_type)
    ELSE TextHits(dbrow, resource_type, location)

\* the attribute values of the objects after a call of
\* find_nearby_resources: resource.distance = distance on the kept ones
WithDistances(dbrow, memrow, resource_type, radius_km, user_lat, user_lon) ==
    IF Truthy(user_lat) /\ Truthy(user_lon)
    THEN [r \in DOMAIN memrow |->
            IF r \in Nearby(dbrow, resource_type, radius_km, user_lat, user_lon)
            THEN [memrow[r] EXCEPT !.distance =
                     calculate_distance(user_lat, user_lon, dbrow[r].latitude,
                                        dbrow[r].longitude)]
            ELSE memrow[r]]
    ELSE memrow

\* MatchingService.find_nearby_resources.
\* dbrow: the rows the statement filters on; memrow: the attribute values
\* of the ORM objects the query returns (the values sort() reads).
find_nearby_resources(dbrow, memrow, resource_type, location, radius_km, user_lat, user_lon) ==
    IF Truthy(user_lat) /\ Truthy(user_lon)
    THEN LET near == Nearby(dbrow, resource_type, radius_km, user_lat, user_lon)
             marked == WithDistances(dbrow, memrow, resource_type, radius_km,
                                     user_lat, user_lon)
             byCapacity == SortByKey(IdsAscending(near),
                               [r \in near |-> 0 - marked[r].available_capacity])
         IN  SortByKey(byCapacity, [r \in near |-> marked[r].distance])
    ELSE LET hits == TextHits(dbrow, resource_type, location)
             key == [r \in hits |-> 0 - memrow[r].available_capacity]
         IN  SortByKey(IdsAscending(hits), key)

RECURSIVE ProductOfTotals(_, _)
ProductOfTotals(seq, memrow) ==
    IF seq = <<>> THEN 1
    ELSE (IF memrow[Head(seq)].total_capacity > 1
          THEN memrow[Head(seq)].total_capacity ELSE 1)
         * ProductOfTotals(Tail(seq), memrow)

\* the scoring and selection of _apply_matching_algorithm in a process
\* whose hash(resource.name) % 10 is name_hash.  Scores are scaled by the
\* product of the max(total_capacity, 1) of the candidates, which keeps
\* them integral and preserves their order.
BestResource(name_hash, request, candidates, memrow) ==
    LET D == ProductOfTotals(candidates, memrow)
        T(r) == IF memrow[r].total_capacity > 1
                THEN memrow[r].total_capacity ELSE 1
        Proximity(r) ==
            IF memrow[r].distance = NoDistance THEN 50
            ELSE IF 100 - memrow[r].distance * 2 > 0
            THEN 100 - memrow[r].distance * 2 ELSE 0
        Priority(r) ==
            IF request.priority_level >= 4
            THEN (IF memrow[r].resource_type = "transport" THEN 30
                  ELSE IF memrow[r].resource_type = "shelter" THEN 20 ELSE 0)
            ELSE 0
        Free(r) == IF memrow[r].price_per_unit = 0 THEN 25 ELSE 0
        Score(r) == (Proximity(r) + Priority(r) + Free(r) + name_hash[r]) * D
                    + (memrow[r].available_capacity * 50 * D) \div T(r)
        key == [r \in {candidates[i] : i \in 1..Len(candidates)} |-> 0 - Score(r)]
    IN  IF candidates = <<>> THEN NoResource
        ELSE SortByKey(candidates, key)[1]

\* MatchingService._apply_matching_algorithm in this process
_apply_matching_algorithm(request, candidates, memrow) ==
    BestResource(nameHash, request, candidates, memrow)

\* MatchingService.match_request_to_resource
match_request_to_resource(request, dbrow, memrow) ==
    LET found == find_nearby_resources(dbrow, memrow, request.resource_type,
                                       request.location, MaxLocationRadiusKm,
                                       request.latitude, request.longitude)
        marked == WithDistances(dbrow, memrow, request.resource_type,
                                MaxLocationRadiusKm, request.latitude,
                                request.longitude)
    IN  IF found = <<>> THEN NoResource
        ELSE _apply_matching_algorithm(request, found, marked)


(***************************************************************************)
(* USSD menu handler (USSDMenuHandler)                                     *)
(***************************************************************************)
\* USSDMenuHandler._continue_session
_continue_session(message) ==
    [prefix |-> "CON ", message |-> message, status |-> 200]

\* the string USSDMenuHandler._end_session returns
_end_session(message) ==
    [prefix |-> "END ", message |-> message, status |-> 200]

\* what a step handler leaves behind: the session row (keep = FALSE when
\* _end_session deleted it), the response, and whether the confirmation
\* goes on to create the request (then resource is the row it loaded)
Outcome(keep, session, resp) ==
    [keep |-> keep, session |-> session, resp |-> resp, finalise |-> FALSE,
     resource_id |-> NoResource]

\* variant of _show_main_menu that leaves current_step as it is
_show_main_menu_no_step(session) ==
    Outcome(TRUE, session, _continue_session("Emergency Response System"))

\* USSDMenuHandler._show_main_menu
_show_main_menu(session) ==
    Outcome(TRUE, [session EXCEPT !.current_step = "main_menu"],
            _continue_session("Emergency Response System"))

\* variant of _handle_main_menu_selection that goes on to the resource list
\* without asking for a location
_handle_main_menu_selection_skips(session, selection) ==
    IF selection = <<"0">>
    THEN Outcome(FALSE, session, _end_session("Thank you"))
    ELSE IF selection \notin {<<"1">>, <<"2">>, <<"3">>}
    THEN Outcome(TRUE, session, _continue_session("Invalid selection"))
    ELSE Outcome(TRUE, [session EXCEPT !.current_step = "resource_selection"],
                 _continue_session("You selected"))

\* USSDMenuHandler._handle_main_menu_selection
_handle_main_menu_selection(session, selection) ==
    LET resource_types == [x \in {<<"1">>, <<"2">>, <<"3">>} |->
                             IF x = <<"1">> THEN "shelter"
                             ELSE IF x = <<"2">> THEN "food" ELSE "transport"]
    IN  IF selection = <<"0">>
        THEN Outcome(FALSE, session, _end_session("Thank you"))
        ELSE IF selection \notin DOMAIN resource_types
        THEN Outcome(TRUE, session, _continue_session("Invalid selection"))
        ELSE Outcome(TRUE,
                     [session EXCEPT
                        !.data = [EmptyData EXCEPT
                                    !.resource_type = resource_types[selection]],
                        !.current_step = "location_input"],
                     _continue_session("You selected"))

\* variant of FirstFive that keeps the whole list
FirstFive_uncut(seq) == seq

\* resources[:5]
FirstFive(seq) ==
    SubSeq(seq, 1, IF Len(seq) < MaxMenuOptions THEN Len(seq) ELSE MaxMenuOptions)

\* USSDMenuHandler._handle_location_input
_handle_location_input(session, location) ==
    IF location = <<>> \/ Len(Strip(location)) < 2
    THEN Outcome(TRUE, session, _continue_session("Please enter a valid location"))
    ELSE LET found == find_nearby_resources(resources, resources,
                                            session.data.resource_type, location,
                                            MaxLocationRadiusKm, NoCoord, NoCoord)
         IN  IF found = <<>>
             THEN Outcome(FALSE, session, _end_session("Sorry, none available"))
             ELSE Outcome(TRUE,
                          [session EXCEPT
                             !.data.location = Strip(location),
                             !.data.resources = FirstFive(found),
                             !.current_step = "resource_selection"],
                          _continue_session("Available near"))

\* variant of resource_gone for a handler that trusts the listing
resource_gone_never(resource_id) == FALSE

\* `not resource or resource.available_capacity <= 0` on the committed row
resource_gone(resource_id) ==
    \/ resource_id \notin DOMAIN resources
    \/ resources[resource_id].available_capacity <= 0

\* variant of _handle_resource_selection that books the chosen resource
\* without asking for a confirmation
_handle_resource_selection_books(session, selection) ==
    LET n == ParseInt(selection)
        listed == session.data.resources
    IN  IF selection = <<"0">> THEN _show_main_menu(session)
        ELSE IF ~n.ok \/ n.val < 1 \/ n.val > Len(listed)
        THEN Outcome(TRUE, session, _continue_session("Invalid selection. Choose a number"))
        ELSE IF resources[listed[n.val]].available_capacity <= 0
        THEN Outcome(TRUE, session,
                     _continue_session("Selected resource is no longer available"))
        ELSE [keep |-> TRUE,
              session |-> [session EXCEPT !.data.selected_resource_id = listed[n.val]],
              finalise |-> TRUE, resp |-> _continue_session(""),
              resource_id |-> listed[n.val]]

\* USSDMenuHandler._handle_resource_selection
_handle_resource_selection(session, selection) ==
    LET n == ParseInt(selection)
        selection_idx == n.val - 1
        listed == session.data.resources
    IN  IF selection = <<"0">> THEN _show_main_menu(session)
        ELSE IF ~n.ok \/ selection_idx < 0 \/ selection_idx >= Len(listed)
        THEN Outcome(TRUE, session, _continue_session("Invalid selection. Choose a number"))
        ELSE LET resource_id == listed[selection_idx + 1]
             IN  IF resource_gone(resource_id)
                 THEN Outcome(TRUE, session,
                              _continue_session("Selected resource is no longer available"))
                 ELSE Outcome(TRUE,
                              [session EXCEPT
                                 !.data.selected_resource_id = resource_id,
                                 !.current_step = "confirmation"],
                              _continue_session("Confirm your request"))

\* variant of _handle_confirmation that ends the session on a token other
\* than 1 or 2
_handle_confirmation_strict(session, selection) ==
    IF selection = <<"1">> /\ session.data.selected_resource_id \in DOMAIN resources
                          /\ resources[session.data.selected_resource_id].available_capacity > 0
    THEN [keep |-> TRUE, session |-> session, finalise |-> TRUE,
          resp |-> _continue_session(""),
          resource_id |-> session.data.selected_resource_id]
    ELSE Outcome(FALSE, session, _end_session("Request cancelled"))

\* USSDMenuHandler._handle_confirmation up to the availability check
_handle_confirmation(session, selection) ==
    LET resource_id == session.data.selected_resource_id
    IN  IF selection = <<"2">>
        THEN Outcome(FALSE, session, _end_session("Request cancelled"))
        ELSE IF selection # <<"1">>
        THEN Outcome(TRUE, session, _continue_session("Please choose"))
        ELSE IF \/ resource_id \notin DOMAIN resources
                \/ resources[resource_id].available_capacity <= 0
        THEN Outcome(FALSE, session, _end_session("Resource no longer available"))
        ELSE [keep |-> TRUE, session |-> session, finalise |-> TRUE,
              resp |-> _continue_session(""), resource_id |-> resource_id]

\* USSDMenuHandler._handle_user_input
_handle_user_input(session, text) ==
    LET inputs == Split(text, "*")
        current_input == IF inputs # <<>> THEN inputs[Len(inputs)] ELSE <<>>
    IN  IF session.current_step = "main_menu"
        THEN _handle_main_menu_selection(session, current_input)
        ELSE IF session.current_step = "location_input"
        THEN _handle_location_input(session, current_input)
        ELSE IF session.current_step = "resource_selection"
        THEN _handle_resource_selection(session, current_input)
        ELSE IF session.current_step = "confirmation"
        THEN _handle_confirmation(session, current_input)
        ELSE _show_main_menu(session)

\* USSDMenuHandler._get_or_create_session.  For an expired row the code
\* marks the row deleted, adds a new row with the same session_id and
\* commits once; the unit of work flushes the INSERT before the DELETE, the
\* unique index on session_id rejects the INSERT, and commit() raises
\* IntegrityError after rolling back (ok = FALSE, the stored row stays).
_get_or_create_session(sid, user_id) ==
    IF sid \notin DOMAIN sessions
    THEN [ok |-> TRUE, session |-> NewSession(user_id)]
    ELSE IF is_expired(sessions[sid])
    THEN [ok |-> FALSE, session |-> sessions[sid]]
    ELSE [ok |-> TRUE, session |-> extend_session(sessions[sid])]


(***************************************************************************)
(* Inbound session call: ussd_callback and its decorators                  *)
(***************************************************************************)
\* the answers Flask's error handlers give (app/__init__.py)
JsonError(message, status) ==
    [prefix |-> "{", message |-> message, status |-> status]

WithStatus(resp, status) == [resp EXCEPT !.status = status]

\* history: session starts of a caller inside the rate window
StartsWithin(caller) ==
    Cardinality({ i \in 1..Len(auditLogs) :
                    /\ auditLogs[i].caller = caller
                    /\ auditLogs[i].new_session
                    /\ auditLogs[i].timestamp > now - RateWindow })

\* the record of an answered call
Answered(n, sid, caller, resp, found, expired, starts_before) ==
    [n |-> n, sid |-> sid, caller |-> caller, prefix |-> resp.prefix,
     message |-> resp.message, status |-> resp.status, at |-> now,
     found |-> found, expired |-> expired, starts_before |-> starts_before]

NoCall ==
    [n |-> 0, sid |-> "", caller |-> NoUser, prefix |-> "", message |-> "",
     status |-> 0, at |-> 0, found |-> FALSE, expired |-> FALSE,
     starts_before |-> 0]

\* USSDMenuHandler.process_request up to the point where the confirmation
\* has loaded its resource; the whole call when it answers before that
process_request(sid, phone, text) ==
    LET caller == normalize_phone_number(phone)
        found == sid \in DOMAIN sessions
        expired == found /\ now > sessions[sid].expires_at
        isStart == ~found \/ expired
        loaded == _get_or_create_session(sid, caller)
        session == loaded.session
        out == IF detect_suspicious_activity(caller, "ussd_request")
               THEN Outcome(FALSE, session,
                            _end_session("Request blocked for security reasons"))
               ELSE IF text = <<>> THEN _show_main_menu(session)
               ELSE _handle_user_input(session, text)
        answer(resp) == Answered(calls + 1, sid, caller, resp, found, expired,
                                 StartsWithin(caller))
    IN  /\ users' = users \cup {caller}
        /\ IF is_rate_limited(caller, "ussd", UssdRateLimit)
           THEN /\ sessions' = sessions
                /\ inflight' = inflight
                /\ last' = answer(_end_session("Too many requests"))
                /\ auditLogs' = Append(auditLogs, UssdAuditRow(caller, isStart))
           ELSE IF ~loaded.ok
           THEN \* the except branch of process_request; self.session is
                \* still None, so _end_session deletes nothing
                /\ sessions' = sessions
                /\ inflight' = inflight
                /\ last' = answer(_end_session("Service temporarily unavailable"))
                /\ auditLogs' = Append(auditLogs, UssdAuditRow(caller, isStart))
           ELSE IF out.finalise
           THEN /\ sessions' = PutKey(sessions, sid, out.session)
                /\ inflight' = PutKey(inflight, sid,
                      [pc |-> "duplicate_check", user_id |-> caller,
                       session |-> out.session,
                       resource_id |-> out.resource_id,
                       resource |-> resources[out.resource_id],
                       answer |-> answer(_continue_session(""))])
                /\ UNCHANGED <<last, auditLogs>>
           ELSE /\ sessions' = IF out.keep THEN PutKey(sessions, sid, out.session)
                               ELSE RemoveKey(sessions, sid)
                /\ inflight' = inflight
                /\ last' = answer(out.resp)
                /\ auditLogs' = Append(auditLogs, UssdAuditRow(caller, isStart))

\* ussd_callback under @rate_limit_by_phone and @audit_log('ussd_request')
UssdCallback(sid, phone, text, body) ==
    /\ sid \notin DOMAIN inflight
    /\ calls' = calls + 1
    /\ UNCHANGED <<now, resources, requests, nameHash, am, summary, drift, gateway, cleaned>>
    /\ LET reject(resp) ==
               Answered(calls + 1, sid, NoUser, resp, sid \in DOMAIN sessions,
                        FALSE, 0)
           valid == validate_ussd_request(body, sid, phone)
       IN  IF body = "badjson"
           THEN \* request.json raises BadRequest inside rate_limit_by_phone
                /\ last' = reject(JsonError("Bad Request", 400))
                /\ UNCHANGED <<users, sessions, inflight, auditLogs>>
           ELSE IF body # "nodata" /\ LimiterLimitRaises(phone)
           THEN /\ last' = reject(JsonError("Rate limit exceeded", 429))
                /\ UNCHANGED <<users, sessions, inflight, auditLogs>>
           ELSE IF body = "nodata"
           THEN /\ last' = reject(WithStatus(
                             _end_session("Service temporarily unavailable"), 400))
                /\ auditLogs' = Append(auditLogs, UssdAuditRow(NoUser, FALSE))
                /\ UNCHANGED <<users, sessions, inflight>>
           ELSE IF ~valid.ok
           THEN /\ last' = reject(WithStatus(_end_session(valid.msg), 400))
                /\ auditLogs' = Append(auditLogs, UssdAuditRow(NoUser, FALSE))
                /\ UNCHANGED <<users, sessions, inflight>>
           ELSE process_request(sid, phone, text)

\* the answer of a call that went on to finalisation
Finished(f, resp) ==
    [f.answer EXCEPT !.prefix = resp.prefix, !.message = resp.message,
                     !.status = resp.status, !.at = now]

\* the notifications the handlers send, and what a send can do: return a
\* success, return an error, raise
NotificationKinds == {"confirmation", "provider", "completion"}
SendOutcomes == {"sent", "failed", "raised"}
AllSent == [kind \in NotificationKinds |-> "sent"]

\* variant of SendGuarded for a send outside a try block
SendGuarded_bare(outcome) == outcome # "raised"

\* try: SMSService.send_...(...) except Exception: logger.error(...)
\* TRUE when the handler goes on with the statement after the block
SendGuarded(outcome) == TRUE

\* USSDMenuHandler._handle_confirmation: the duplicate check
ConfirmDuplicateCheck(sid) ==
    /\ sid \in DOMAIN inflight
    /\ inflight[sid].pc = "duplicate_check"
    /\ LET f == inflight[sid]
       IN  IF check_duplicate_requests(f.user_id, f.session.data.resource_type,
                                       f.session.data.location, DuplicateWindow)
           THEN /\ sessions' = RemoveKey(sessions, sid)
                /\ inflight' = RemoveKey(inflight, sid)
                /\ last' = Finished(f, _end_session("You have a similar pending request"))
                /\ auditLogs' = Append(auditLogs, UssdAuditRow(f.user_id, FALSE))
           ELSE /\ inflight' = [inflight EXCEPT ![sid].pc = "commit"]
                /\ UNCHANGED <<sessions, last, auditLogs>>
    /\ UNCHANGED <<now, calls, users, resources, requests, nameHash, am, summary,
                   drift, gateway, cleaned>>

\* USSDMenuHandler._handle_confirmation: create the request, update the
\* capacity, commit, end the session
ConfirmCommit(sid) ==
    /\ sid \in DOMAIN inflight
    /\ inflight[sid].pc = "commit"
    /\ LET f == inflight[sid]
           reserved == update_capacity(f.resource, 1)
           emergency_request ==
               [NewRequest(f.user_id, f.session.data.resource_type,
                           f.session.data.location, f.resource_id,
                           f.resource.price_per_unit)
                EXCEPT !.status = "matched", !.matched_at = now]
       IN  /\ requests' = Append(requests, emergency_request)
           /\ resources' = IF reserved.ok
                           THEN [resources EXCEPT
                                   ![f.resource_id].available_capacity =
                                       reserved.resource.available_capacity]
                           ELSE resources
           /\ sessions' = RemoveKey(sessions, sid)
           /\ inflight' = RemoveKey(inflight, sid)
           /\ last' = Finished(f,
                  IF /\ SendGuarded(gateway["confirmation"])
                     /\ SendGuarded(gateway["provider"])
                  THEN _end_session("Request confirmed!")
                  ELSE _end_session("Failed to process request"))
           /\ auditLogs' = Append(auditLogs, UssdAuditRow(f.user_id, FALSE))
    /\ UNCHANGED <<now, calls, users, nameHash, am, summary, drift, gateway, cleaned>>

\* the clock advances by d minutes
Tick(d) ==
    /\ now' = now + d
    /\ UNCHANGED <<calls, users, sessions, resources, requests, auditLogs,
                   nameHash, inflight, am, summary, last, drift, gateway, cleaned>>


(***************************************************************************)
(* Auto-match (MatchingService.auto_match_pending_requests)                *)
(***************************************************************************)
\* variant of PendingQuery without the ORDER BY
PendingQuery_unordered ==
    IdsAscending({ i \in 1..Len(requests) :
                     /\ requests[i].status = "pending"
                     /\ requests[i].created_at <= now - AutoMatchGrace })

\* the query of the pending requests older than the grace period, ordered
\* by priority_level descending, then created_at
PendingQuery ==
    LET ids == { i \in 1..Len(requests) :
                   /\ requests[i].status = "pending"
                   /\ requests[i].created_at <= now - AutoMatchGrace }
        byCreated == SortByKey(IdsAscending(ids),
                               [i \in ids |-> requests[i].created_at])
    IN  SortByKey(byCreated, [i \in ids |-> 0 - requests[i].priority_level])

\* variant of the quantity expression that ignores quantity_needed
QuantityAlwaysOne(request) == 1

\* request.quantity_needed or 1
QuantityOrOne(request) ==
    IF request.quantity_needed = 0 THEN 1 ELSE request.quantity_needed

NoSummary == [total_processed |-> 0 - 1, matched |-> 0 - 1, failed |-> 0 - 1]

\* variant of RestAfterFailure for a run that gives up at the first request
\* without a resource
RestAfterFailure_abort(queue) == <<>>

\* the requests the loop still visits after one that found no resource
RestAfterFailure(queue) == Tail(queue)

\* the query that opens a run
AutoMatchBegin(a) ==
    /\ a \notin DOMAIN am
    /\ am' = PutKey(am, a,
                [queue |-> PendingQuery, loaded |-> <<>>, dirty |-> {},
                 upd |-> <<>>, matched |-> 0, failed |-> 0,
                 total |-> Len(PendingQuery)])
    /\ UNCHANGED <<now, calls, users, sessions, resources, requests,
                   auditLogs, nameHash, inflight, summary, last, drift, gateway, cleaned>>

\* one pass of the loop body, for the request at the head of the list
AutoMatchStep(a) ==
    /\ a \in DOMAIN am
    /\ am[a].queue # <<>>
    /\ LET run == am[a]
           i == Head(run.queue)
           request == requests[i]
           \* rows as the query sees them: this run's own changes, else the
           \* committed rows
           dbrow == [r \in DOMAIN resources |->
                        IF r \in run.dirty THEN run.loaded[r] ELSE resources[r]]
           \* attribute values of the objects in this run's identity map
           memrow == [r \in DOMAIN resources |->
                        IF r \in DOMAIN run.loaded THEN run.loaded[r]
                        ELSE resources[r]]
           seen == QueryLoads(dbrow, request.resource_type, request.location,
                              request.latitude, request.longitude)
           marked == WithDistances(dbrow, memrow, request.resource_type,
                                   MaxLocationRadiusKm, request.latitude,
                                   request.longitude)
           resource == match_request_to_resource(request, dbrow, memrow)
           reserved == update_capacity(marked[resource], QuantityOrOne(request))
           loaded1 == [r \in DOMAIN run.loaded \cup seen |-> marked[r]]
       IN  IF resource # NoResource
           THEN am' = [am EXCEPT ![a] =
                    [run EXCEPT
                       !.queue = Tail(run.queue),
                       !.upd = PutKey(run.upd, i,
                                  [resource_id |-> resource,
                                   matched_at |-> now,
                                   total_cost |-> marked[resource].price_per_unit]),
                       !.loaded = [loaded1 EXCEPT ![resource] = reserved.resource],
                       !.dirty = IF reserved.ok THEN run.dirty \cup {resource}
                                 ELSE run.dirty,
                       !.matched = run.matched + 1,
                       !.failed = IF /\ SendGuarded(gateway["confirmation"])
                                     /\ SendGuarded(gateway["provider"])
                                  THEN run.failed ELSE run.failed + 1]]
           ELSE am' = [am EXCEPT ![a] =
                    [run EXCEPT !.queue = RestAfterFailure(run.queue),
                                !.loaded = loaded1,
                                !.failed = run.failed + 1]]
    /\ UNCHANGED <<now, calls, users, sessions, resources, requests,
                   auditLogs, nameHash, inflight, summary, last, drift, gateway, cleaned>>

\* db.session.commit() and the summary
AutoMatchCommit(a) ==
    /\ a \in DOMAIN am
    /\ am[a].queue = <<>>
    /\ LET run == am[a]
       IN  /\ requests' = [i \in DOMAIN requests |->
                  IF i \in DOMAIN run.upd
                  THEN [requests[i] EXCEPT
                          !.resource_id = run.upd[i].resource_id,
                          !.status = "matched",
                          !.matched_at = run.upd[i].matched_at,
                          !.total_cost = run.upd[i].total_cost]
                  ELSE requests[i]]
           /\ resources' = [r \in DOMAIN resources |->
                  IF r \in run.dirty
                  THEN [resources[r] EXCEPT !.available_capacity =
                                               run.loaded[r].available_capacity]
                  ELSE resources[r]]
           /\ summary' = [total_processed |-> run.total,
                          matched |-> run.matched, failed |-> run.failed]
    /\ am' = RemoveKey(am, a)
    /\ UNCHANGED <<now, calls, users, sessions, auditLogs, nameHash,
                   inflight, last, drift, gateway, cleaned>>

(***************************************************************************)
(* Confirmation by a provider (POST /requests/<reference>/confirm)         *)
(***************************************************************************)
\* id of the signed-in provider (g.current_user_id)
Provider == 3

\* the row the audit_log decorator of an API route adds after the call
ApiAuditRow(action) ==
    [user_id |-> Provider, action |-> action, timestamp |-> now,
     has_details |-> FALSE, has_location |-> FALSE, location |-> <<>>,
     caller |-> NoUser, new_session |-> FALSE]

\* variant of confirm_request without the test of the status
confirm_request_unguarded(i) ==
    /\ i \in 1..Len(requests)
    /\ requests[i].status \in {"pending", "matched"}
    /\ requests' = [requests EXCEPT ![i].status = "confirmed",
                                    ![i].confirmed_at = now]
    /\ auditLogs' = Append(auditLogs, ApiAuditRow("api_request_confirm"))
    /\ UNCHANGED <<now, calls, users, sessions, resources,
                   nameHash, inflight, am, summary, last, drift, gateway, cleaned>>

\* confirm_request for the request with id i, called by a provider or an
\* admin: a request that is not matched is refused with status 400
confirm_request(i) ==
    /\ i \in 1..Len(requests)
    /\ requests[i].status = "matched"
    /\ requests' = [requests EXCEPT ![i].status = "confirmed",
                                    ![i].confirmed_at = now]
    /\ auditLogs' = Append(auditLogs, ApiAuditRow("api_request_confirm"))
    /\ UNCHANGED <<now, calls, users, sessions, resources,
                   nameHash, inflight, am, summary, last, drift, gateway, cleaned>>

(***************************************************************************)
(* Session cleanup (POST /sessions/cleanup)                                *)
(***************************************************************************)
\* no cleanup has returned yet
NoCount == 0 - 1

\* the row audit_log('session_cleanup') adds; the route has no signed-in user
CleanupAuditRow ==
    [ApiAuditRow("session_cleanup") EXCEPT !.user_id = NoUser]

\* variant of ExpiredSessions that takes the sessions expiring now as well
ExpiredSessions_inclusive ==
    { sid \in DOMAIN sessions : sessions[sid].expires_at <= now }

\* USSDSession.query.filter(USSDSession.expires_at < datetime.utcnow()).all()
ExpiredSessions ==
    { sid \in DOMAIN sessions : sessions[sid].expires_at < now }

\* cleanup_sessions: cleanup_expired_sessions deletes the rows of the query,
\* commits and returns their number
cleanup_sessions ==
    /\ sessions' = [sid \in DOMAIN sessions \ ExpiredSessions |-> sessions[sid]]
    /\ cleaned' = Cardinality(ExpiredSessions)
    /\ calls' = calls + 1
    /\ auditLogs' = Append(auditLogs, CleanupAuditRow)
    /\ UNCHANGED <<now, users, resources, requests, nameHash, inflight, am,
                   summary, last, drift, gateway>>

(***************************************************************************)
(* Resource update (PUT /resources/<id>)                                   *)
(***************************************************************************)
\* a JSON value that int() accepts, and one on which int() raises
JsonInt(n) == [parses |-> TRUE, n |-> n]
JsonWord == [parses |-> FALSE, n |-> 0]

\* the answer of a view that returns jsonify(...) with the default status
JsonOk(message) == [prefix |-> "{", message |-> message, status |-> 200]

\* the fields of the body are taken in the order of updatable_fields:
\* location, total_capacity, available_capacity, is_active. The result holds
\* the resource object as the view leaves it in the session (row), whether
\* the view rolled the session back (rolled_back) and the answer (resp)
update_resource_view(r, data) ==
    LET has(field) == field \in DOMAIN data
        stored == resources[r]
        s1 == IF has("location")
              THEN [stored EXCEPT !.location = data.location] ELSE stored
        badTotal == has("total_capacity") /\ ~data.total_capacity.parses
        s2 == IF has("total_capacity") /\ ~badTotal
              THEN [s1 EXCEPT !.total_capacity = data.total_capacity.n] ELSE s1
        badAvail == has("available_capacity") /\ ~data.available_capacity.parses
        tooMany == /\ has("available_capacity") /\ ~badAvail
                   /\ data.available_capacity.n > s2.total_capacity
        s3 == IF has("available_capacity") /\ ~badAvail /\ ~tooMany
              THEN [s2 EXCEPT !.available_capacity = data.available_capacity.n]
              ELSE s2
        s4 == IF has("is_active")
              THEN [s3 EXCEPT !.is_active = data.is_active] ELSE s3
    IN  IF DOMAIN data = {}
        THEN [row |-> stored, rolled_back |-> FALSE,
              resp |-> JsonError("No data provided", 400)]
        ELSE IF badTotal \/ badAvail
        THEN [row |-> stored, rolled_back |-> TRUE,
              resp |-> JsonError("Failed to update resource", 500)]
        ELSE IF tooMany
        THEN [row |-> s2, rolled_back |-> FALSE,
              resp |-> JsonError("Available capacity cannot exceed total capacity", 400)]
        ELSE [row |-> s4, rolled_back |-> FALSE,
              resp |-> JsonOk("Resource updated successfully")]

\* update_resource under audit_log('api_resource_update'): the decorator runs
\* the view, then adds its row and commits the session, which writes what the
\* view left changed on the resource object
update_resource(r, data) ==
    LET v == update_resource_view(r, data)
    IN  /\ resources' = [resources EXCEPT ![r] = v.row]
        /\ last' = Answered(calls + 1, "", NoUser, v.resp, FALSE, FALSE, 0)
        /\ calls' = calls + 1
        /\ auditLogs' = Append(auditLogs, ApiAuditRow("api_resource_update"))
        /\ UNCHANGED <<now, users, sessions, requests, nameHash, inflight, am,
                       summary, drift, gateway, cleaned>>

(***************************************************************************)
(* Initial states                                                          *)
(***************************************************************************)
ResourceRow(resource_type, location, total, available, price, active) ==
    [resource_type |-> resource_type, location |-> location,
     total_capacity |-> total, available_capacity |-> available,
     price_per_unit |-> price, is_active |-> active,
     latitude |-> NoCoord, longitude |-> NoCoord, distance |-> NoDistance]

\* a request that reached the table without a resource
BacklogRow(user_id, resource_type, location, quantity, created_at, priority) ==
    [user_id |-> user_id, resource_type |-> resource_type,
     location |-> location, resource_id |-> NoResource,
     quantity_needed |-> quantity, status |-> "pending",
     created_at |-> created_at, matched_at |-> NoTime,
     confirmed_at |-> NoTime, priority_level |-> priority, total_cost |-> 0,
     latitude |-> NoCoord, longitude |-> NoCoord, origin |-> "backlog"]

\* capacity columns of a seeded resource: 0 <= available <= total
Capacities == { c \in (1..MaxCap) \X (0..MaxCap) : c[2] <= c[1] }

LokojaShelters ==
    { ResourceRow("shelter", LabelLokoja, c[1], c[2], 0, TRUE) : c \in Capacities }

OtherResources ==
    { ResourceRow("shelter", LabelGanaja, 1, 1, 500, TRUE),
      ResourceRow("shelter", LabelLokoja, 1, 1, 0, FALSE),
      ResourceRow("food", LabelOsara, 1, 1, 0, TRUE) }

NoHash == [r \in ResourceIds |-> 0]

Quiet ==
    /\ now = 0
    /\ calls = 0
    /\ auditLogs = <<>>
    /\ inflight = <<>>
    /\ am = <<>>
    /\ summary = NoSummary
    /\ last = NoCall

\* a freshly seeded system: resources, no sessions, no requests
Seeded ==
    /\ Quiet
    /\ users = {}
    /\ sessions = <<>>
    /\ requests = <<>>
    /\ nameHash = NoHash
    /\ \E r1 \in LokojaShelters, r2 \in OtherResources :
          resources = [r \in ResourceIds |-> IF r = 1 THEN r1 ELSE r2]

\* ... on a machine whose two successive clock reads give the same time
Init ==
    /\ Seeded
    /\ drift = 0
    /\ gateway = AllSent
    /\ cleaned = NoCount

(***************************************************************************)
(* Specification of the serial session traffic                             *)
(***************************************************************************)
Phone1 == [fmt |-> "+234", sub |-> 1]
Phone1Local == [fmt |-> "0", sub |-> 1]
BadPhone == [fmt |-> "bad", sub |-> 1]

\* no handler is between its reads and its commit
Idle == inflight = <<>> /\ am = <<>>

\* well-formed calls, one at a time
SerialCall ==
    \E text \in Texts :
        /\ Idle
        /\ calls < MaxCalls
        /\ UssdCallback("s1", Phone1, text, "form")

\* calls the endpoint rejects, and JSON-encoded calls
OddCall ==
    \E sid \in {"s1", BadSessionId}, phone \in {Phone1Local, BadPhone},
       body \in BodyKinds :
        /\ Idle
        /\ calls < MaxCalls
        /\ UssdCallback(sid, phone, <<>>, body)

Finalise == \E sid \in SessionIds : ConfirmDuplicateCheck(sid) \/ ConfirmCommit(sid)

\* the session TTL passes
Expire ==
    /\ now = 0
    /\ Tick(SessionTTL + 1)

Next == SerialCall \/ OddCall \/ Finalise \/ Expire

Spec == Init /\ [][Next]_vars


(***************************************************************************)
(* Claims checked on Spec                                                  *)
(***************************************************************************)
\* a call has been answered by this step
AnsweredNow == last' # last

\* C5: after a call answered END no session with the call's session id is
\* stored; after a call answered CON a session with that id is stored and
\* was not expired when the answer was given
C5_EndDeletesConKeeps ==
    /\ (last.n > 0 /\ last.prefix = "END ") => last.sid \notin DOMAIN sessions
    /\ (last.n > 0 /\ last.prefix = "CON ") =>
          /\ last.sid \in DOMAIN sessions
          /\ sessions[last.sid].expires_at >= last.at

\* the session a first call leaves behind: main menu, nothing selected
FreshSession(caller, at) ==
    [user_id |-> caller, current_step |-> "main_menu", data |-> EmptyData,
     last_activity |-> at, expires_at |-> at + SessionTTL]

\* C6: a well-formed call that names a session whose expiry has passed is
\* answered like a call that names no stored session: with the main menu
\* (CON), leaving a fresh session at main_menu without selections, and
\* creating no request
C6_ExpiredIsUnknown ==
    [][(AnsweredNow /\ last'.caller # NoUser /\ (last'.expired \/ ~last'.found)) =>
          /\ last'.prefix = "CON "
          /\ last'.message = "Emergency Response System"
          /\ last'.sid \in DOMAIN sessions'
          /\ sessions'[last'.sid] = FreshSession(last'.caller, last'.at)
          /\ requests' = requests
          /\ resources' = resources]_vars

\* C10: every answer to an inbound session call starts with CON or END
C10_PrefixContract == last.n > 0 => last.prefix \in {"CON ", "END "}


(***************************************************************************)
(* Confirmations racing each other and an auto-match run                   *)
(***************************************************************************)
ConfirmText == FlowTexts[5]

\* a session that has selected resource 1 and is asked to confirm
ConfirmingSession(caller, location) ==
    [user_id |-> caller, current_step |-> "confirmation",
     data |-> [resource_type |-> "shelter", location |-> location,
               resources |-> FirstFive(find_nearby_resources(
                                 resources, resources, "shelter", location,
                                 MaxLocationRadiusKm, NoCoord, NoCoord)),
               selected_resource_id |-> 1],
     last_activity |-> now, expires_at |-> now + SessionTTL]

\* the audit rows of the four calls that brought a session to confirmation
Trail(caller) ==
    <<UssdAuditRow(caller, TRUE), UssdAuditRow(caller, FALSE),
      UssdAuditRow(caller, FALSE), UssdAuditRow(caller, FALSE)>>

\* pending requests without a resource, older than the grace period
Backlogs ==
    {<<>>} \cup
    { <<BacklogRow(2, "shelter", Lokoja, q, 0 - 2 * AutoMatchGrace, 1)>> :
        q \in 1..MaxQty }

\* two sessions at step confirmation for resource 1, which is untouched:
\* available_capacity = total_capacity and no request is matched to it
InitRace ==
    /\ now = 0
    /\ calls = 0
    /\ inflight = <<>>
    /\ am = <<>>
    /\ summary = NoSummary
    /\ last = NoCall
    /\ nameHash = NoHash
    /\ drift = 0
    /\ gateway = AllSent
    /\ cleaned = NoCount
    /\ \E t \in 1..MaxCap, r2 \in OtherResources :
          resources = [r \in ResourceIds |->
                         IF r = 1
                         THEN ResourceRow("shelter", LabelLokoja, t, t, 0, TRUE)
                         ELSE r2]
    /\ requests \in Backlogs
    /\ users = Callers
    /\ \E c2 \in Callers :
          /\ sessions = [sid \in SessionIds |->
                           IF sid = "s1" THEN ConfirmingSession(1, Lokoja)
                           ELSE ConfirmingSession(c2, Lokoja)]
          /\ auditLogs = Trail(1) \o Trail(c2)

PhoneOf(caller) == [fmt |-> "+234", sub |-> caller]

\* a confirmation arrives for a stored session, whatever else is running
RaceCall ==
    \E sid \in SessionIds :
        /\ sid \in DOMAIN sessions
        /\ calls < MaxCalls
        /\ UssdCallback(sid, PhoneOf(sessions[sid].user_id), ConfirmText, "form")

\* one auto-match run, step by step
AutoMatchRun ==
    \/ summary = NoSummary /\ AutoMatchBegin("a1")
    \/ AutoMatchStep("a1")
    \/ AutoMatchCommit("a1")

NextRace == RaceCall \/ Finalise \/ AutoMatchRun

SpecRace == InitRace /\ [][NextRace]_vars

\* requests a confirmation created for resource r
Confirmed(r) ==
    { i \in 1..Len(requests) :
        requests[i].origin = "ussd" /\ requests[i].resource_id = r }

\* C1: when confirmations contend for a resource with one unit and no
\* auto-match run takes part, no two of them that come from different
\* callers both create a request, and once all are answered one of them has
C1_LastUnitOneWinner ==
    (/\ resources[1].total_capacity = 1
     /\ am = <<>>
     /\ summary = NoSummary) =>
        /\ \A i, j \in Confirmed(1) :
              requests[i].user_id # requests[j].user_id => i = j
        /\ (sessions = <<>> /\ inflight = <<>>) => Confirmed(1) # {}

\* C2: the committed available_capacity of every resource, and every value
\* of it a handler holds before its commit, is between 0 and total_capacity
C2_CapacityBounds ==
    /\ \A r \in ResourceIds :
          /\ 0 <= resources[r].available_capacity
          /\ resources[r].available_capacity <= resources[r].total_capacity
    /\ \A a \in DOMAIN am : \A r \in DOMAIN am[a].loaded :
          /\ 0 <= am[a].loaded[r].available_capacity
          /\ am[a].loaded[r].available_capacity <= resources[r].total_capacity

\* C2 witness: a resource with one unit has two requests attached to it and
\* its available_capacity is 0
C2_Witness ==
    \E r \in ResourceIds :
        /\ resources[r].total_capacity = 1
        /\ resources[r].available_capacity = 0
        /\ Cardinality({ i \in 1..Len(requests) :
                           requests[i].resource_id = r }) >= 2

RECURSIVE SumQuantity(_)
SumQuantity(ids) ==
    IF ids = {} THEN 0
    ELSE LET i == CHOOSE x \in ids : TRUE
         IN  requests[i].quantity_needed + SumQuantity(ids \ {i})

\* C3: for every resource, the capacity taken from it (it started with
\* available_capacity = total_capacity) equals the sum of quantity_needed of
\* the requests matched to it
C3_CapacityAccounting ==
    \A r \in ResourceIds :
        resources[r].total_capacity - resources[r].available_capacity
          = SumQuantity({ i \in 1..Len(requests) :
                            /\ requests[i].status = "matched"
                            /\ requests[i].resource_id = r })


(***************************************************************************)
(* Repeated confirmations of one caller, one call at a time                *)
(***************************************************************************)
lokoja == Lower(Lokoja)

\* a request an earlier confirmation of caller 1 created for resource 1
EarlierRequest(created_at) ==
    [NewRequest(1, "shelter", Lokoja, 1, 0)
     EXCEPT !.status = "matched", !.created_at = created_at,
            !.matched_at = created_at]

\* two sessions of caller 1 at step confirmation for resource 1; the caller
\* may have confirmed a request for it up to DuplicateWindow minutes ago
InitDup ==
    /\ now = 0
    /\ calls = 0
    /\ inflight = <<>>
    /\ am = <<>>
    /\ summary = NoSummary
    /\ last = NoCall
    /\ nameHash = NoHash
    /\ drift = 0
    /\ gateway = AllSent
    /\ cleaned = NoCount
    /\ users = {1}
    /\ \E age \in {0, DuplicateWindow - 1, DuplicateWindow}, r2 \in OtherResources :
          /\ requests = IF age = 0 THEN <<>> ELSE <<EarlierRequest(0 - age)>>
          /\ resources = [r \in ResourceIds |->
                IF r = 1
                THEN ResourceRow("shelter", LabelLokoja, MaxCap,
                                 IF age = 0 THEN MaxCap ELSE MaxCap - 1, 0, TRUE)
                ELSE r2]
    /\ \E loc2 \in {Lokoja, lokoja} :
          sessions = [sid \in SessionIds |->
                        IF sid = "s1" THEN ConfirmingSession(1, Lokoja)
                        ELSE ConfirmingSession(1, loc2)]
    /\ auditLogs = Trail(1) \o Trail(1)

\* a confirmation (token 1) arrives for a stored session
DupCall ==
    \E sid \in SessionIds :
        /\ Idle
        /\ sid \in DOMAIN sessions
        /\ calls < MaxCalls
        /\ UssdCallback(sid, PhoneOf(sessions[sid].user_id), ConfirmText, "form")

\* time passes, the sessions stay alive
DupWait ==
    /\ Idle
    /\ now = 0
    /\ Tick(SessionTTL)

NextDup == DupCall \/ Finalise \/ DupWait

SpecDup == InitDup /\ [][NextDup]_vars

\* a request that a confirmation of this caller created for this type and
\* location text less than DuplicateWindow minutes ago
HasRecentConfirmed(caller, resource_type, location) ==
    \E i \in 1..Len(requests) :
        /\ requests[i].origin = "ussd"
        /\ requests[i].user_id = caller
        /\ requests[i].resource_type = resource_type
        /\ requests[i].location = location
        /\ now - requests[i].created_at < DuplicateWindow

\* C7: when a confirmation (every call of SpecDup is one) is answered for a
\* session whose caller already has a request confirmed for the same type
\* and location text within the last 30 minutes, the answer is END, no
\* request is created and no resource changes
C7_DuplicateGuard ==
    [][(/\ AnsweredNow
        /\ last'.sid \in DOMAIN sessions
        /\ HasRecentConfirmed(last'.caller,
                              sessions[last'.sid].data.resource_type,
                              sessions[last'.sid].data.location)) =>
          /\ last'.prefix = "END "
          /\ requests' = requests
          /\ resources' = resources]_vars

\* C7 witness: a confirmation was turned down as a duplicate while the
\* selected resource still had a unit
C7_Witness ==
    /\ last.message = "You have a similar pending request"
    /\ resources[1].available_capacity > 0
    /\ \E i \in 1..Len(requests) : requests[i].origin = "ussd"

(***************************************************************************)
(* Auto-match over a backlog                                               *)
(***************************************************************************)
\* a system with one or two pending requests without a resource
InitAuto ==
    /\ now = 0
    /\ calls = 0
    /\ inflight = <<>>
    /\ am = <<>>
    /\ summary = NoSummary
    /\ last = NoCall
    /\ users = Callers
    /\ sessions = <<>>
    /\ auditLogs = <<>>
    /\ nameHash \in {NoHash, [r \in ResourceIds |-> IF r = 2 THEN 9 ELSE 0]}
    /\ drift = 0
    /\ gateway = AllSent
    /\ cleaned = NoCount
    /\ \E r1 \in LokojaShelters, r2 \in OtherResources :
          resources = [r \in ResourceIds |-> IF r = 1 THEN r1 ELSE r2]
    /\ \E loc \in {Lokoja, Osara}, q \in 0..MaxQty,
          age \in {AutoMatchGrace - 1, AutoMatchGrace}, second \in BOOLEAN :
          requests =
              <<BacklogRow(1, "shelter", loc, q, 0 - age, 1)>> \o
              (IF second
               THEN <<BacklogRow(2, "shelter", Lokoja, 1, 0 - 2 * AutoMatchGrace, 5)>>
               ELSE <<>>)

\* a run starts
AutoStart == AutoMatchBegin("a1")
\* a run handles the next request of its list
AutoLoop == AutoMatchStep("a1")
\* a run commits and reports
AutoFinish == AutoMatchCommit("a1")

\* a minute passes between runs
AutoWait ==
    /\ Idle
    /\ now = 0
    /\ Tick(1)

NextAuto == AutoStart \/ AutoLoop \/ AutoFinish \/ AutoWait

SpecAuto == InitAuto /\ [][NextAuto]_vars

\* location occurs in label, ignoring case
RECURSIVE ContainsAt(_, _, _)
ContainsAt(label, location, k) ==
    IF k + Len(location) - 1 > Len(label) THEN FALSE
    ELSE \/ SubSeq(Lower(label), k, k + Len(location) - 1) = Lower(location)
         \/ ContainsAt(label, location, k + 1)

\* pending requests older than the grace period
OldPending ==
    { i \in 1..Len(requests) :
        /\ requests[i].status = "pending"
        /\ now - requests[i].created_at >= AutoMatchGrace }

\* active resources with capacity that match request i
MatchingResources(i) ==
    { r \in ResourceIds :
        /\ resources[r].is_active
        /\ resources[r].available_capacity > 0
        /\ resources[r].resource_type = requests[i].resource_type
        /\ ContainsAt(resources[r].location, requests[i].location, 1) }

\* the outcome C8 describes for request i and resource r
MatchedAndTaken(i, r) ==
    /\ requests'[i].status = "matched"
    /\ requests'[i].resource_id = r
    /\ resources'[r].available_capacity =
           resources[r].available_capacity - requests[i].quantity_needed
    /\ summary'.matched = 1
    /\ summary'.failed = 0

\* a run finishes in this step (no run overlaps another in SpecAuto, and the
\* clock stands still during a run, so the tables are as the run found them)
RunFinishes == am # <<>> /\ am' = <<>>

InitFlow ==
    /\ Quiet
    /\ sessions = <<>>
    /\ requests \in Backlogs
    /\ users = {requests[i].user_id : i \in 1..Len(requests)}
    /\ nameHash \in {NoHash, [r \in ResourceIds |-> IF r = 2 THEN 9 ELSE 0]}
    /\ drift = 0
    /\ gateway = AllSent
    /\ cleaned = NoCount
    /\ \E r1 \in LokojaShelters, r2 \in OtherResources :
          /\ resources = [r \in ResourceIds |-> IF r = 1 THEN r1 ELSE r2]
          /\ \E r \in {r1, r2} :
                /\ r.is_active
                /\ r.resource_type = "shelter"
                /\ r.available_capacity > 0

\* the next call of the flow
FlowCall ==
    /\ Idle
    /\ calls < Len(FlowTexts)
    /\ UssdCallback("s1", Phone1, FlowTexts[calls + 1], "form")

NextFlow == FlowCall \/ Finalise

SpecFlow == InitFlow /\ [][NextFlow]_vars

\* requests of caller 1
RequestsOfCaller ==
    { i \in 1..Len(requests) : requests[i].user_id = 1 }

\* C4: the five calls are answered CON, CON, CON, CON, END; until the fifth
\* answer no resource changes, the fifth answer takes exactly one unit from
\* the resource of the request it creates, and afterwards the caller has
\* exactly one request, in status matched
C4_EndToEndFlow ==
    /\ [](/\ last.n \in 1..4 => last.prefix = "CON "
          /\ last.n = 5 =>
                /\ last.prefix = "END "
                /\ Cardinality(RequestsOfCaller) = 1
                /\ \A i \in RequestsOfCaller : requests[i].status = "matched")
    /\ [][IF AnsweredNow /\ last'.n = 5
          THEN \E r \in ResourceIds :
                  /\ requests'[Len(requests')].resource_id = r
                  /\ resources' = [resources EXCEPT
                                     ![r].available_capacity = @ - 1]
          ELSE resources' = resources]_vars

\* C4 witness: the fifth call has been answered with the confirmation
C4_Witness ==
    /\ last.n = 5
    /\ last.message = "Request confirmed!"
    /\ Len(requests) >= 1

(***************************************************************************)
(* Session starts of one caller                                            *)
(***************************************************************************)
RateSessionIds == {"s1", "s2", "s3", "s4"}

\* a call with a session id that is not stored
StartCall ==
    \E sid \in RateSessionIds, caller \in Callers :
        /\ sid \notin DOMAIN sessions
        /\ calls < MaxCalls
        /\ UssdCallback(sid, PhoneOf(caller), <<>>, "form")

\* half of the rate window passes
RateWait ==
    /\ now < RateWindow
    /\ Tick(RateWindow \div 2)

NextRate == StartCall \/ RateWait

SpecRate == Init /\ [][NextRate]_vars

\* C9: a call that starts a session for a caller who already started
\* UssdRateLimit sessions within the last hour is answered END or 429 and
\* leaves no session under its id
C9_StartsAreGated ==
    (/\ last.n > 0
     /\ last.caller # NoUser
     /\ ~last.found
     /\ last.starts_before >= UssdRateLimit) =>
        /\ last.prefix = "END " \/ last.status = 429
        /\ last.sid \notin DOMAIN sessions


(***************************************************************************)
(* The end-to-end flow with every call delivered twice                     *)
(***************************************************************************)
\* the cumulative text of delivery k: text 1, text 1, text 2, text 2, ...
Delivered(k) == FlowTexts[(k + 1) \div 2]

\* the gateway delivers the next call of the flow, or repeats the last one
RetransmitCall ==
    /\ Idle
    /\ calls < 2 * Len(FlowTexts)
    /\ UssdCallback("s1", Phone1, Delivered(calls + 1), "form")

NextRetransmit == RetransmitCall \/ Finalise

SpecRetransmit == InitFlow /\ [][NextRetransmit]_vars

\* the stored step and selections of session sid in the table t ("none"
\* when no row is stored)
StoredStep(t, sid) ==
    IF sid \in DOMAIN t
    THEN [step |-> t[sid].current_step, data |-> t[sid].data]
    ELSE [step |-> "none", data |-> EmptyData]

\* C11: the second delivery of a call (same session id, caller and
\* cumulative text as the delivery before it) leaves the stored step, the
\* stored selections, the requests and the resource capacities as the first
\* delivery left them
C11_RetransmissionIdempotent ==
    [][(calls % 2 = 1 \/ inflight # <<>>) =>
          /\ StoredStep(sessions', "s1") = StoredStep(sessions, "s1")
          /\ requests' = requests
          /\ resources' = resources]_vars


(***************************************************************************)
(* Overlapping auto-match runs and provider confirmations                  *)
(***************************************************************************)
Runners == {"a1", "a2"}

\* POST /matching/auto-match, possibly while another run is under way
AutoMatchRuns ==
    \E a \in Runners : AutoMatchBegin(a) \/ AutoMatchStep(a) \/ AutoMatchCommit(a)

\* a provider confirms a request
ProviderConfirms == \E i \in 1..Len(requests) : confirm_request(i)

NextStatus == AutoMatchRuns \/ ProviderConfirms \/ AutoWait

SpecStatus == InitAuto /\ [][NextStatus]_vars

\* the status changes the lifecycle allows
LegalMoves ==
    { <<"pending", "matched">>, <<"matched", "confirmed">>,
      <<"confirmed", "completed">>, <<"pending", "cancelled">>,
      <<"matched", "cancelled">>, <<"confirmed", "cancelled">> }

\* C12: every change of a stored request's status is a move of the legal
\* order pending -> matched -> confirmed -> completed (or to cancelled from
\* a non-terminal status), and a request that has left pending is not
\* matched again
C12_StatusOrder ==
    [][\A i \in 1..Len(requests) :
          /\ requests'[i].status # requests[i].status =>
                <<requests[i].status, requests'[i].status>> \in LegalMoves
          /\ requests[i].status # "pending" =>
                /\ requests'[i].matched_at = requests[i].matched_at
                /\ requests'[i].resource_id = requests[i].resource_id]_vars


(***************************************************************************)
(* Confirmations by callers, one auto-match run and provider confirmations *)
(***************************************************************************)
NextLifecycle == RaceCall \/ Finalise \/ AutoMatchRun \/ ProviderConfirms

SpecLifecycle == InitRace /\ [][NextLifecycle]_vars

\* C13: a stored request has a resource id exactly when its status is
\* matched, confirmed or completed; a pending request has none
C13_ResourceIffMatched ==
    \A i \in 1..Len(requests) :
        (requests[i].resource_id # NoResource) <=>
            (requests[i].status \in {"matched", "confirmed", "completed"})

\* C13 witness: a request matched by the auto-match run and confirmed by a
\* provider next to a request a caller's confirmation created
C13_Witness ==
    \E i, j \in 1..Len(requests) :
        /\ requests[i].origin = "backlog"
        /\ requests[i].status = "confirmed"
        /\ requests[i].resource_id # NoResource
        /\ requests[j].origin = "ussd"
        /\ requests[j].status = "matched"
        /\ requests[j].resource_id # NoResource


(***************************************************************************)
(* The serial session traffic with a clock that moves between two reads    *)
(***************************************************************************)
\* the clock may tick between two successive datetime.utcnow() calls
Drifts == {0, 1}

InitClock ==
    /\ Seeded
    /\ drift \in Drifts
    /\ gateway = AllSent
    /\ cleaned = NoCount

SpecClock == InitClock /\ [][Next]_vars

\* C14: every stored session has expires_at = last_activity + SessionTTL,
\* after its creation and after every call that touches it
C14_ExpiryFollowsActivity ==
    \A sid \in DOMAIN sessions :
        sessions[sid].expires_at = sessions[sid].last_activity + SessionTTL


(***************************************************************************)
(* Auto-match of a request that carries coordinates                        *)
(***************************************************************************)
\* latitudes and longitudes in the valid range, multiples of 60 degrees
Lats == {0 - 60, 0, 60}
Lons == {0 - 120, 0, 60, 180}
GridPoints == Lats \X Lons

At(row, point) == [row EXCEPT !.latitude = point[1], !.longitude = point[2]]

\* two shelters and one old pending request, each with coordinates
InitGeo ==
    /\ Quiet
    /\ users = Callers
    /\ sessions = <<>>
    /\ nameHash = NoHash
    /\ drift = 0
    /\ gateway = AllSent
    /\ cleaned = NoCount
    /\ \E p1, p2, q \in GridPoints :
          /\ resources =
                [r \in ResourceIds |->
                   IF r = 1
                   THEN At(ResourceRow("shelter", LabelLokoja, 2, 2, 0, TRUE), p1)
                   ELSE At(ResourceRow("shelter", LabelGanaja, 1, 1, 500, TRUE), p2)]
          /\ requests =
                <<At(BacklogRow(1, "shelter", Lokoja, 1, 0 - 2 * AutoMatchGrace, 1), q)>>

SpecGeo == InitGeo /\ [][NextAuto]_vars

\* the coordinate points stored with the resources and the requests
StoredPoints ==
    { <<resources[r].latitude, resources[r].longitude>> : r \in ResourceIds }
    \cup { <<requests[i].latitude, requests[i].longitude>> : i \in 1..Len(requests) }

\* C16: calculate_distance is symmetric and gives 0 from a point to itself,
\* for all points with latitude and longitude in the valid range
C16_DistanceSymmetricZero ==
    \A A, B \in StoredPoints :
        /\ calculate_distance(A[1], A[2], B[1], B[2]) =
               calculate_distance(B[1], B[2], A[1], A[2])
        /\ calculate_distance(A[1], A[2], A[1], A[2]) = 0


(***************************************************************************)
(* The choice of the best resource in two runs of the program              *)
(***************************************************************************)
\* the values hash(resource.name) % 10 can take in a process
NameHashes == [ResourceIds -> {0, 9}]

\* what a process whose name hashes are name_hash chooses for request i on
\* the stored rows
ChoiceOf(name_hash, i) ==
    LET request == requests[i]
        found == find_nearby_resources(resources, resources,
                     request.resource_type, request.location,
                     MaxLocationRadiusKm, request.latitude, request.longitude)
        marked == WithDistances(resources, resources, request.resource_type,
                     MaxLocationRadiusKm, request.latitude, request.longitude)
    IN  [order |-> found,
         best |-> BestResource(name_hash, request, found, marked)]

\* C15: on the same resource rows and the same request, this process and
\* any other run of the program get the same candidate order and choose the
\* same best resource
C15_SameChoiceInEveryRun ==
    \A i \in 1..Len(requests) : \A name_hash \in NameHashes :
        ChoiceOf(name_hash, i) = ChoiceOf(nameHash, i)


(***************************************************************************)
(* Claims on the anomaly gate, checked on SpecDup                          *)
(***************************************************************************)
\* the USSD calls of a caller within the last SuspiciousWindow minutes
RecentCalls(caller) ==
    Cardinality({ i \in 1..Len(auditLogs) :
                    /\ auditLogs[i].action = "ussd_request"
                    /\ auditLogs[i].caller = caller
                    /\ auditLogs[i].timestamp > now - SuspiciousWindow })

\* C17: the call of a caller who has made more than 5 USSD calls within the
\* last 5 minutes is answered with the END response 'blocked for security',
\* creates no request and changes no capacity
C17_AnomalyGate ==
    [][(/\ AnsweredNow
        /\ last'.caller # NoUser
        /\ RecentCalls(last'.caller) > SuspiciousActions) =>
          /\ last'.prefix = "END "
          /\ last'.message = "Request blocked for security reasons"
          /\ requests' = requests
          /\ resources' = resources]_vars


(***************************************************************************)
(* Claims on the steps of a session, checked on Spec                       *)
(***************************************************************************)
\* the stages of the flow in their order
StepRank ==
    [main_menu |-> 1, location_input |-> 2, resource_selection |-> 3,
     confirmation |-> 4]

\* the latest token of a cumulative text
LastToken(text) ==
    IF text = <<>> THEN <<>> ELSE Split(text, "*")[Len(Split(text, "*"))]

\* this step is a call on session sid with the cumulative text
IsCall(sid, text) ==
    \E phone \in {Phone1, Phone1Local}, body \in BodyKinds :
        UssdCallback(sid, phone, text, body)

\* this step is a call on session sid, and every text that makes this step
\* is a reason to go back to the main menu from the stored step
ReturnCause(sid, step) ==
    /\ \E text \in Texts : IsCall(sid, text)
    /\ \A text \in Texts :
          IsCall(sid, text) =>
              \/ text = <<>>
              \/ step = "resource_selection" /\ LastToken(text) = <<"0">>
              \/ step \notin DOMAIN StepRank

\* the session has a resource type, a location and a candidate list
HasSelections(session) ==
    /\ session.data.resource_type # ""
    /\ session.data.location # <<>>
    /\ session.data.resources # <<>>

\* C18: the stored step of a session moves one stage forward at a time in
\* the order main_menu, location_input, resource_selection, confirmation;
\* apart from that a session is created at main_menu, deleted, or returns
\* to main_menu on an empty text, on token 0 at resource_selection or from
\* an unknown step; and a session at confirmation has its selections
C18_StepOrder ==
    [][\A sid \in SessionIds :
         LET a == StoredStep(sessions, sid).step
             b == StoredStep(sessions', sid).step
         IN  /\ \/ b = a
                \/ b = "none"
                \/ a = "none" /\ b = "main_menu"
                \/ /\ a \in DOMAIN StepRank
                   /\ b \in DOMAIN StepRank
                   /\ StepRank[b] = StepRank[a] + 1
                \/ b = "main_menu" /\ ReturnCause(sid, a)
             /\ b = "confirmation" => HasSelections(sessions'[sid])]_vars

\* C18 witness: a session that went through all four stages and was sent
\* back to the main menu by an empty text
C18_Witness ==
    /\ "s1" \in DOMAIN sessions
    /\ sessions["s1"].current_step = "main_menu"
    /\ sessions["s1"].data.selected_resource_id # NoResource
    /\ HasSelections(sessions["s1"])


(***************************************************************************)
(* Well-formed calls on one session, one at a time                         *)
(***************************************************************************)
NextSteps == SerialCall \/ Finalise \/ Expire

SpecSteps == Init /\ [][NextSteps]_vars

\* a token of decimal digits
AllDigits(token) ==
    /\ token # <<>>
    /\ \A k \in 1..Len(token) : IsDigit(token[k])

\* the token is not an answer the step of the session accepts
InvalidAt(session, token) ==
    LET step == session.current_step
    IN  \/ /\ step = "main_menu"
           /\ token \notin {<<"0">>, <<"1">>, <<"2">>, <<"3">>}
        \/ /\ step = "location_input"
           /\ Len(Strip(token)) < 2
        \/ /\ step = "resource_selection"
           /\ token # <<"0">>
           /\ \/ ~AllDigits(token)
              \/ DigitsValue(token, 0) < 1
              \/ DigitsValue(token, 0) > Len(session.data.resources)
        \/ /\ step = "confirmation"
           /\ token \notin {<<"1">>, <<"2">>}

\* C19: a call whose latest token is invalid at the step of its live
\* session is answered with CON and leaves the stored step, the stored
\* selections, the requests and the capacities unchanged
C19_InvalidTokenReprompts ==
    [][\A text \in Texts \ {<<>>} :
         (/\ "s1" \in DOMAIN sessions
          /\ ~is_expired(sessions["s1"])
          /\ InvalidAt(sessions["s1"], LastToken(text))
          /\ UssdCallback("s1", Phone1, text, "form")) =>
            /\ last'.prefix = "CON "
            /\ StoredStep(sessions', "s1") = StoredStep(sessions, "s1")
            /\ requests' = requests
            /\ resources' = resources]_vars

\* C19 witness: a session at confirmation was asked again after a token
\* other than 1 or 2
C19_Witness ==
    /\ last.prefix = "CON "
    /\ last.message = "Please choose"
    /\ "s1" \in DOMAIN sessions
    /\ sessions["s1"].current_step = "confirmation"


(***************************************************************************)
(* Claims on the creation of requests, checked on Spec                     *)
(***************************************************************************)
\* the confirmation in flight for session sid is at step confirmation and
\* passes the availability and the duplicate check
PassesChecks(sid) ==
    LET f == inflight[sid]
    IN  /\ f.session.current_step = "confirmation"
        /\ f.resource_id = f.session.data.selected_resource_id
        /\ f.resource.available_capacity > 0
        /\ ~check_duplicate_requests(f.user_id, f.session.data.resource_type,
                                     f.session.data.location, DuplicateWindow)

\* C20: the requests change only when a confirmation that passed the
\* availability and duplicate checks adds one request, and a call goes on
\* to such a confirmation only with token 1 at step confirmation; every
\* other call leaves the requests as they are
C20_OnlyConfirmationCreates ==
    [][\A sid \in SessionIds :
         /\ requests' # requests =>
               /\ Len(requests') = Len(requests) + 1
               /\ SubSeq(requests', 1, Len(requests)) = requests
               /\ \E s \in DOMAIN inflight : s \notin DOMAIN inflight' /\ PassesChecks(s)
         /\ (sid \notin DOMAIN inflight /\ sid \in DOMAIN inflight') =>
               /\ sid \in DOMAIN sessions
               /\ sessions[sid].current_step = "confirmation"
               /\ \A text \in Texts :
                     IsCall(sid, text) => LastToken(text) = <<"1">>]_vars

\* C20 witness: the fifth call of a session, token 1 at confirmation, has
\* created the only request
C20_Witness ==
    /\ Len(requests) = 1
    /\ requests[1].origin = "ussd"
    /\ last.n = 5
    /\ last.message = "Request confirmed!"
    /\ inflight = <<>>


(***************************************************************************)
(* Claims on the changes of capacity, checked on SpecRace                  *)
(***************************************************************************)
\* the requests that this step moves from pending to matched with resource r
MatchedNow(r) ==
    { i \in 1..Len(requests) :
        /\ requests[i].status = "pending"
        /\ requests'[i].status = "matched"
        /\ requests'[i].resource_id = r }

\* C21: no step increases the available capacity of a resource; a step
\* that decreases it is a successful confirmation for that resource
\* (by exactly 1) or the end of an auto-match run that matched requests to
\* it (by the sum of their quantities); every other step leaves it as it is
C21_CapacityFrame ==
    [][\A r \in ResourceIds :
         LET taken == resources[r].available_capacity
                      - resources'[r].available_capacity
         IN  /\ taken >= 0
             /\ taken > 0 =>
                   \/ /\ Len(requests') = Len(requests) + 1
                      /\ requests'[Len(requests')].origin = "ussd"
                      /\ requests'[Len(requests')].resource_id = r
                      /\ taken = 1
                   \/ /\ Len(requests') = Len(requests)
                      /\ MatchedNow(r) # {}
                      /\ taken = SumQuantity(MatchedNow(r))]_vars


\* the confirmation of session sid succeeds in this step
ConfirmationSucceeds(sid) ==
    /\ sid \in DOMAIN inflight
    /\ sid \notin DOMAIN inflight'
    /\ last'.sid = sid
    /\ last'.message = "Request confirmed!"

\* C22: a successful confirmation adds exactly one request, of the calling
\* user, for the resource, type and location stored in the session, with
\* status matched, matched_at set and the unit price of the resource as its
\* cost, and takes exactly one unit from the available capacity of that
\* resource
C22_ConfirmationEffect ==
    [][\A sid \in SessionIds :
         ConfirmationSucceeds(sid) =>
           LET chosen == sessions[sid].data
               rid == chosen.selected_resource_id
               new == requests'[Len(requests')]
           IN  /\ Len(requests') = Len(requests) + 1
               /\ SubSeq(requests', 1, Len(requests)) = requests
               /\ new.user_id = last'.caller
               /\ new.resource_id = rid
               /\ new.resource_type = chosen.resource_type
               /\ new.location = chosen.location
               /\ new.status = "matched"
               /\ new.matched_at = now
               /\ new.total_cost = resources[rid].price_per_unit
               /\ resources'[rid].available_capacity =
                      resources[rid].available_capacity - 1]_vars


(***************************************************************************)
(* Claims on the order of the checks of a confirmation, on SpecDup         *)
(***************************************************************************)
\* C23: a confirmation of a caller who has a request for the same type and
\* location text within the window is answered with the 'similar pending
\* request' END message and creates nothing, whether or not the chosen
\* resource has capacity left
C23_DuplicateBeforeAvailability ==
    [][(/\ AnsweredNow
        /\ last'.sid \in DOMAIN sessions
        /\ HasRecentConfirmed(last'.caller,
                              sessions[last'.sid].data.resource_type,
                              sessions[last'.sid].data.location)) =>
          /\ last'.prefix = "END "
          /\ last'.message = "You have a similar pending request"
          /\ requests' = requests
          /\ resources' = resources]_vars


(***************************************************************************)
(* Claims on the reservations of an auto-match run, checked on SpecAuto    *)
(***************************************************************************)
\* the quantity request i asks for (one unit when none is given)
Requested(i) ==
    IF requests[i].quantity_needed = 0 THEN 1 ELSE requests[i].quantity_needed

RECURSIVE SumRequested(_)
SumRequested(ids) ==
    IF ids = {} THEN 0
    ELSE LET i == CHOOSE x \in ids : TRUE
         IN  Requested(i) + SumRequested(ids \ {i})

\* the requests this step moves from pending to matched
AllMatchedNow == UNION { MatchedNow(r) : r \in ResourceIds }

\* C24: when a run ends, the requests it marks matched are those whose full
\* quantity it reserved: every resource gave up the quantities of the
\* requests matched to it, the summary counts them as matched, and every
\* other request of the run stays pending without a resource and is
\* counted as failed
C24_MatchedOnlyIfReserved ==
    [][RunFinishes =>
         /\ \A r \in ResourceIds :
               resources[r].available_capacity - resources'[r].available_capacity
                   = SumRequested(MatchedNow(r))
         /\ summary'.matched = Cardinality(AllMatchedNow)
         /\ summary'.failed = summary'.total_processed - summary'.matched
         /\ \A i \in 1..Len(requests) :
               i \notin AllMatchedNow => requests'[i] = requests[i]]_vars


(***************************************************************************)
(* Specification of one session on a district with more shelters than a    *)
(* menu shows                                                              *)
(***************************************************************************)
MenuIds == 1..(MaxMenuOptions + 1)

\* the shelters of the district: every one labelled Lokoja, one of them
\* possibly depleted, inactive or of another type
InitMenu ==
    /\ Quiet
    /\ drift = 0
    /\ gateway = AllSent
    /\ cleaned = NoCount
    /\ users = {}
    /\ sessions = <<>>
    /\ requests = <<>>
    /\ nameHash = [r \in MenuIds |-> 0]
    /\ \E caps \in [MenuIds -> {1, MaxCap}], odd \in {1, MaxMenuOptions + 1},
          row \in { ResourceRow("shelter", LabelLokoja, 1, 0, 0, TRUE),
                    ResourceRow("shelter", LabelLokoja, 1, 1, 0, FALSE),
                    ResourceRow("food", LabelLokoja, 1, 1, 0, TRUE),
                    ResourceRow("shelter", LabelLokoja, MaxCap, MaxCap, 0, TRUE) } :
          resources = [r \in MenuIds |->
                         IF r = odd THEN row
                         ELSE ResourceRow("shelter", LabelLokoja, MaxCap,
                                          caps[r], 0, TRUE)]

SpecMenu == InitMenu /\ [][NextSteps]_vars

\* resource r can be offered for the type at this instant
Offerable(r, resource_type) ==
    /\ r \in DOMAIN resources
    /\ resources[r].is_active
    /\ resources[r].resource_type = resource_type
    /\ resources[r].available_capacity > 0

\* C25: when a call on a live session at location_input brings a location
\* of trimmed length >= 2 for which the matching query has results, the
\* session stores the ids of the first at most 5 results in the order of
\* the query, every stored id is an active resource of the chosen type with
\* capacity left, and the step becomes resource_selection
C25_LocationStoresCandidates ==
    [][\A text \in Texts \ {<<>>} :
         LET token == LastToken(text)
             type == sessions["s1"].data.resource_type
             found == find_nearby_resources(resources, resources, type, token,
                                            MaxLocationRadiusKm, NoCoord, NoCoord)
             ids == sessions'["s1"].data.resources
         IN  (/\ "s1" \in DOMAIN sessions
              /\ ~is_expired(sessions["s1"])
              /\ sessions["s1"].current_step = "location_input"
              /\ Len(Strip(token)) >= 2
              /\ found # <<>>
              /\ UssdCallback("s1", Phone1, text, "form")) =>
                /\ "s1" \in DOMAIN sessions'
                /\ sessions'["s1"].current_step = "resource_selection"
                /\ Len(ids) <= 5
                /\ Len(ids) = (IF Len(found) < 5 THEN Len(found) ELSE 5)
                /\ \A k \in 1..Len(ids) :
                      /\ ids[k] = found[k]
                      /\ Offerable(ids[k], type)
                /\ \A k \in 1..(Len(ids) - 1) :
                      resources[ids[k]].available_capacity
                          >= resources[ids[k + 1]].available_capacity
                /\ resources' = resources
                /\ requests' = requests]_vars

\* C25 witness: the session lists five shelters and a sixth offerable
\* shelter of the district was left out
C25_Witness ==
    /\ "s1" \in DOMAIN sessions
    /\ sessions["s1"].current_step = "resource_selection"
    /\ Len(sessions["s1"].data.resources) = 5
    /\ \E r \in DOMAIN resources :
          /\ Offerable(r, "shelter")
          /\ \A k \in 1..5 : sessions["s1"].data.resources[k] # r


(***************************************************************************)
(* Specification of a selection while the listed resource is being taken   *)
(***************************************************************************)
\* a session that has been shown the shelters for the location
SelectingSession(caller, location) ==
    [ConfirmingSession(caller, location)
     EXCEPT !.current_step = "resource_selection",
            !.data.selected_resource_id = NoResource]

\* cumulative texts whose latest token answers the list or the confirmation
SelectTexts ==
    { Txt(<<<<"1">>, Lokoja, <<"1">>>>),
      Txt(<<<<"1">>, Lokoja, <<"2">>>>),
      Txt(<<<<"1">>, Lokoja, <<"3">>>>),
      Txt(<<<<"1">>, Lokoja, <<"0">>>>),
      Txt(<<<<"1">>, Lokoja, <<"1">>, <<"1">>>>) }

\* caller 1 has been shown the shelters of Lokoja; caller 2 is asked to
\* confirm resource 1; a pending request may wait for the auto-match
InitSelect ==
    /\ Quiet
    /\ nameHash = NoHash
    /\ drift = 0
    /\ gateway = AllSent
    /\ cleaned = NoCount
    /\ users = Callers
    /\ requests \in Backlogs
    /\ \E t \in 1..MaxCap, r2 \in OtherResources :
          resources = [r \in ResourceIds |->
                         IF r = 1
                         THEN ResourceRow("shelter", LabelLokoja, t, t, 0, TRUE)
                         ELSE r2]
    /\ sessions = [sid \in SessionIds |->
                     IF sid = "s1" THEN SelectingSession(1, Lokoja)
                     ELSE ConfirmingSession(2, Lokoja)]

\* a call arrives for a stored session
SelectCall ==
    \E sid \in SessionIds, text \in SelectTexts :
        /\ sid \in DOMAIN sessions
        /\ calls < MaxCalls
        /\ UssdCallback(sid, PhoneOf(sessions[sid].user_id), text, "form")

NextSelect == SelectCall \/ Finalise \/ AutoMatchRun

SpecSelect == InitSelect /\ [][NextSelect]_vars

\* the latest token of the text is the number of an entry of the list of
\* the session
PicksEntry(session, text) ==
    /\ AllDigits(LastToken(text))
    /\ DigitsValue(LastToken(text), 0) >= 1
    /\ DigitsValue(LastToken(text), 0) <= Len(session.data.resources)

\* the committed row of resource r has capacity left
HasCapacity(r) ==
    /\ r \in DOMAIN resources
    /\ resources[r].available_capacity > 0

\* C26: a call that picks an entry of the list of a live session at
\* resource_selection is answered CON; when the resource of the entry has no
\* capacity left at that instant the step and the selections of the session
\* stay as they were, and no request and no capacity changes; when it has,
\* the session stores it as the chosen resource and moves to confirmation;
\* and no session moves from resource_selection to confirmation otherwise
C26_SelectionRevalidates ==
    [][\A sid \in SessionIds :
         /\ \A text \in SelectTexts :
               (/\ sid \in DOMAIN sessions
                /\ ~is_expired(sessions[sid])
                /\ sessions[sid].current_step = "resource_selection"
                /\ PicksEntry(sessions[sid], text)
                /\ UssdCallback(sid, PhoneOf(sessions[sid].user_id), text, "form")) =>
                  LET picked == sessions[sid].data.resources[
                                    DigitsValue(LastToken(text), 0)]
                  IN  /\ last'.prefix = "CON "
                      /\ requests' = requests
                      /\ resources' = resources
                      /\ sid \in DOMAIN sessions'
                      /\ IF HasCapacity(picked)
                         THEN /\ sessions'[sid].current_step = "confirmation"
                              /\ sessions'[sid].data.selected_resource_id = picked
                         ELSE /\ sessions'[sid].current_step = "resource_selection"
                              /\ sessions'[sid].data = sessions[sid].data
                              /\ sessions'[sid].data.selected_resource_id = NoResource
         /\ (/\ StoredStep(sessions, sid).step = "resource_selection"
             /\ StoredStep(sessions', sid).step = "confirmation") =>
                HasCapacity(sessions'[sid].data.selected_resource_id)]_vars

\* C26 witness: caller 1 picked a listed shelter that had been taken since
\* the list was shown and was asked to choose again
C26_Witness ==
    /\ last.sid = "s1"
    /\ last.prefix = "CON "
    /\ last.message = "Selected resource is no longer available"
    /\ "s1" \in DOMAIN sessions
    /\ sessions["s1"].current_step = "resource_selection"
    /\ \E k \in 1..Len(sessions["s1"].data.resources) :
          resources[sessions["s1"].data.resources[k]].available_capacity = 0


(***************************************************************************)
(* Specification of auto-match runs over two requests for one place        *)
(***************************************************************************)
Priorities == {1, 5}

\* two requests for a shelter, each for one unit (given or by default), of
\* any priority and age around the grace period; the first may have been
\* cancelled, and either may name a place without shelters
InitOrder ==
    /\ Quiet
    /\ users = Callers
    /\ sessions = <<>>
    /\ nameHash = NoHash
    /\ drift = 0
    /\ gateway = AllSent
    /\ cleaned = NoCount
    /\ \E r1 \in LokojaShelters, r2 \in OtherResources :
          resources = [r \in ResourceIds |-> IF r = 1 THEN r1 ELSE r2]
    /\ \E p1 \in Priorities, p2 \in Priorities, q1 \in {0, 1}, q2 \in {0, 1},
          age1 \in {AutoMatchGrace - 1, AutoMatchGrace, 2 * AutoMatchGrace},
          age2 \in {AutoMatchGrace, 2 * AutoMatchGrace},
          loc1 \in {Lokoja, Osara}, loc2 \in {Lokoja, Osara},
          status1 \in {"pending", "cancelled"} :
          requests = <<[BacklogRow(1, "shelter", loc1, q1, 0 - age1, p1)
                        EXCEPT !.status = status1],
                       BacklogRow(2, "shelter", loc2, q2, 0 - age2, p2)>>

SpecOrder == InitOrder /\ [][NextAuto]_vars

\* request i is handled before request j: higher priority, or the same
\* priority and created earlier
GoesFirst(i, j) ==
    \/ requests[i].priority_level > requests[j].priority_level
    \/ /\ requests[i].priority_level = requests[j].priority_level
       /\ requests[i].created_at < requests[j].created_at

\* both requests are eligible and resource r, with one unit left, is the
\* only resource that matches either of them
LastUnitContest(r) ==
    /\ OldPending = {1, 2}
    /\ MatchingResources(1) = {r}
    /\ MatchingResources(2) = {r}
    /\ resources[r].available_capacity = 1

\* C27: when a run ends that found two eligible requests competing for the
\* last unit of a resource, one of them is matched to the resource and the
\* other is unchanged and counted as failed; the matched one is the one of
\* higher priority or, at equal priority, the one created earlier
C27_OrderDecidesLastUnit ==
    [][\A r \in ResourceIds :
         (RunFinishes /\ LastUnitContest(r)) =>
            /\ summary' = [total_processed |-> 2, matched |-> 1, failed |-> 1]
            /\ resources'[r].available_capacity = 0
            /\ \E i \in {1, 2} :
                  /\ requests'[i].status = "matched"
                  /\ requests'[i].resource_id = r
                  /\ requests'[3 - i] = requests[3 - i]
                  /\ ~GoesFirst(3 - i, i)]_vars

\* C27 witness: the second request of the table, of higher priority, took
\* the last unit and the first request is still pending
C27_Witness ==
    /\ summary = [total_processed |-> 2, matched |-> 1, failed |-> 1]
    /\ requests[2].status = "matched"
    /\ requests[2].priority_level > requests[1].priority_level
    /\ requests[1].status = "pending"
    /\ requests[1].resource_id = NoResource
    /\ resources[requests[2].resource_id].available_capacity = 0
    /\ resources[requests[2].resource_id].total_capacity = 1


\* the requests of OldPending that match a resource no other request of
\* OldPending matches
Uncontested ==
    { i \in OldPending :
        /\ MatchingResources(i) # {}
        /\ \A j \in OldPending \ {i} :
              MatchingResources(i) \cap MatchingResources(j) = {} }

RequestStatuses == {"pending", "matched", "confirmed", "cancelled"}

\* an earlier request of any caller, type, spelling of the place, status
\* and age around the duplicate window
EarlierRows ==
    { [BacklogRow(caller, resource_type, location, 1, 0 - age, 1)
       EXCEPT !.status = status] :
        caller \in Callers, resource_type \in {"shelter", "food"},
        location \in {Lokoja, lokoja}, status \in RequestStatuses,
        age \in {DuplicateWindow - SessionTTL, DuplicateWindow - 1,
                 DuplicateWindow} }

\* a request for a shelter in Lokoja that caller 1 cancelled a minute ago
CancelledTwin ==
    [BacklogRow(1, "shelter", Lokoja, 1, 0 - 1, 1) EXCEPT !.status = "cancelled"]

\* two sessions of caller 1 at step confirmation for resource 1, and a
\* table of earlier requests
InitGuard ==
    /\ Quiet
    /\ nameHash = NoHash
    /\ drift = 0
    /\ gateway = AllSent
    /\ cleaned = NoCount
    /\ users = Callers
    /\ resources = [r \in ResourceIds |->
                      IF r = 1
                      THEN ResourceRow("shelter", LabelLokoja, MaxCap, MaxCap, 0, TRUE)
                      ELSE ResourceRow("food", LabelOsara, 1, 1, 0, TRUE)]
    /\ \E row \in EarlierRows, twin \in BOOLEAN :
          requests = (IF twin THEN <<CancelledTwin>> ELSE <<>>) \o <<row>>
    /\ \E loc2 \in {Lokoja, lokoja} :
          sessions = [sid \in SessionIds |->
                        IF sid = "s1" THEN ConfirmingSession(1, Lokoja)
                        ELSE ConfirmingSession(1, loc2)]

SpecGuard == InitGuard /\ [][NextDup]_vars

\* request i blocks a new request of the caller for the type and the place
Blocks(i, caller, resource_type, location) ==
    /\ requests[i].user_id = caller
    /\ requests[i].resource_type = resource_type
    /\ requests[i].location = location
    /\ requests[i].status # "cancelled"
    /\ now - requests[i].created_at < DuplicateWindow

\* C29: for every caller, type and location text, check_duplicate_requests
\* with a window of 30 minutes is true exactly when some request of that
\* caller, of that type and with exactly that location text is not
\* cancelled and was created less than 30 minutes ago
C29_DuplicateIff ==
    \A caller \in Callers, resource_type \in {"shelter", "food"},
       location \in {Lokoja, lokoja, Osara} :
        check_duplicate_requests(caller, resource_type, location, DuplicateWindow)
            <=> \E i \in 1..Len(requests) :
                    Blocks(i, caller, resource_type, location)

\* C29 witness: a confirmation was turned down because of a request the
\* caller confirmed before, in a table that also holds a cancelled request
\* and a request of another caller, type, spelling or age that do not block
C29_Witness ==
    /\ last.message = "You have a similar pending request"
    /\ Len(requests) = 3
    /\ requests[1] = CancelledTwin
    /\ ~Blocks(1, 1, "shelter", Lokoja)
    /\ ~Blocks(2, 1, "shelter", Lokoja)
    /\ Blocks(3, 1, "shelter", Lokoja)


(***************************************************************************)
(* Specification of one session whose caller types the place freely        *)
(***************************************************************************)
\* places as callers type them: the name, another case, a part of the
\* label, a place without resources, and texts with the characters _ and %
LocationTexts ==
    { Lokoja, lokoja, <<"K", "O", "G", "I">>, Osara,
      <<"L", "_", "k", "o", "j", "a">>, <<"%", "%">> }

\* the cumulative texts of a session that asks for a shelter at such a
\* place, takes the first entry of the list and confirms
QueryTexts ==
    { <<>>, <<"1">> } \cup
    { Txt(<<<<"1">>, location>>) : location \in LocationTexts } \cup
    { Txt(<<<<"1">>, location, <<"1">>>>) : location \in LocationTexts } \cup
    { Txt(<<<<"1">>, location, <<"1">>, <<"1">>>>) : location \in LocationTexts }

QueryCall ==
    \E text \in QueryTexts :
        /\ Idle
        /\ calls < MaxCalls
        /\ UssdCallback("s1", Phone1, text, "form")

NextQuery == QueryCall \/ Finalise

SpecQuery == Init /\ [][NextQuery]_vars

\* the resources that can be offered for the type and whose label contains
\* the location text, ignoring case
OfferableAt(resource_type, location) ==
    { r \in DOMAIN resources :
        /\ Offerable(r, resource_type)
        /\ ContainsAt(resources[r].location, location, 1) }

\* C30: without coordinates of the caller, find_nearby_resources returns,
\* for every type and location text, each active resource of the type with
\* capacity left whose label contains the text (ignoring case) once, no
\* other resource, and in an order of non-increasing available capacity
C30_TextSearchExact ==
    \A resource_type \in {"shelter", "food"}, location \in LocationTexts :
        LET found == find_nearby_resources(resources, resources, resource_type,
                                           location, MaxLocationRadiusKm,
                                           NoCoord, NoCoord)
        IN  /\ { found[k] : k \in 1..Len(found) }
                   = OfferableAt(resource_type, location)
            /\ Len(found) = Cardinality(OfferableAt(resource_type, location))
            /\ \A k \in 1..(Len(found) - 1) :
                  resources[found[k]].available_capacity
                      >= resources[found[k + 1]].available_capacity

(***************************************************************************)
(* Claims on the search by coordinates, checked on SpecGeo                 *)
(***************************************************************************)
\* the great-circle distance in km between two points of the grid
GreatCircleKm(lat1, lon1, lat2, lon2) ==
    LET a16 == SinSqHalf16(lat2 - lat1)
               + (Cos2(lat1) * Cos2(lat2) * SinSqHalf16(lon2 - lon1)) \div 4
    IN  IF a16 = 0 THEN 0 ELSE ArcKm[a16]

\* the distance from the point of request i to resource r
KmFrom(i, r) ==
    GreatCircleKm(requests[i].latitude, requests[i].longitude,
                  resources[r].latitude, resources[r].longitude)

\* C31: for every request that carries a latitude and a longitude,
\* find_nearby_resources returns only resources that have coordinates and
\* lie within radius_km of the point of the request, in order of ascending
\* distance and, at equal distance, of descending available capacity
C31_CoordinateSearch ==
    \A i \in 1..Len(requests) :
        (requests[i].latitude # NoCoord /\ requests[i].longitude # NoCoord) =>
            LET found == find_nearby_resources(resources, resources,
                             requests[i].resource_type, requests[i].location,
                             MaxLocationRadiusKm, requests[i].latitude,
                             requests[i].longitude)
            IN  /\ \A k \in 1..Len(found) :
                      /\ resources[found[k]].latitude # NoCoord
                      /\ resources[found[k]].longitude # NoCoord
                      /\ KmFrom(i, found[k]) <= MaxLocationRadiusKm
                /\ \A k \in 1..(Len(found) - 1) :
                      \/ KmFrom(i, found[k]) < KmFrom(i, found[k + 1])
                      \/ /\ KmFrom(i, found[k]) = KmFrom(i, found[k + 1])
                         /\ resources[found[k]].available_capacity
                                >= resources[found[k + 1]].available_capacity

(***************************************************************************)
(* Specification of confirmations, auto-match runs and provider            *)
(* confirmations, one at a time, with a gateway of any behaviour           *)
(***************************************************************************)
\* two callers asked to confirm resource 1, possibly a pending request for
\* one unit, and a gateway that sends, fails or raises for each kind of
\* notification
InitNotify ==
    /\ Quiet
    /\ nameHash = NoHash
    /\ drift = 0
    /\ gateway \in [NotificationKinds -> SendOutcomes]
    /\ cleaned = NoCount
    /\ users = Callers
    /\ \E t \in 1..MaxCap, r2 \in OtherResources :
          resources = [r \in ResourceIds |->
                         IF r = 1
                         THEN ResourceRow("shelter", LabelLokoja, t, t, 0, TRUE)
                         ELSE r2]
    /\ requests \in {<<>>, <<BacklogRow(2, "shelter", Lokoja, 1,
                                        0 - 2 * AutoMatchGrace, 1)>>}
    /\ sessions = [sid \in SessionIds |->
                     IF sid = "s1" THEN ConfirmingSession(1, Lokoja)
                     ELSE ConfirmingSession(2, Lokoja)]

NextNotify ==
    \/ DupCall
    \/ Finalise
    \/ inflight = <<>> /\ AutoMatchRun
    \/ Idle /\ ProviderConfirms

SpecNotify == InitNotify /\ [][NextNotify]_vars

\* the confirmation in flight for session sid commits in this step
CommitsNow(sid) ==
    /\ sid \in DOMAIN inflight
    /\ inflight[sid].pc = "commit"
    /\ sid \notin DOMAIN inflight'

FaultPoints ==
    {"get_user", "rate_check", "get_session", "activity_check", "step",
     "search", "reserve"}

\* the points before self.session is set
BeforeSession == {"get_user", "rate_check", "get_session"}

\* variant of FaultAnswer for an endpoint without a try block of its own
FaultAnswer_reraised(at, again) ==
    IF at \in BeforeSession
    THEN _end_session("Service temporarily unavailable")
    ELSE IF again THEN JsonError("Internal Server Error", 500)
    ELSE _end_session("Service temporarily unavailable")

\* the answer of a call whose store raises at point `at`; again: the store
\* raises once more when _end_session deletes the session row.
\* Before self.session is set the except branch of process_request answers
\* and deletes nothing.  After that every branch ends in _end_session: when
\* its delete raises, the exception leaves process_request and the except
\* branch of ussd_callback answers with status 500; otherwise
\* find_nearby_resources has swallowed its exception and returned [], the
\* except branch of _handle_confirmation has rolled back, or the except
\* branch of process_request answers.
FaultAnswer(at, again) ==
    IF at \in BeforeSession
    THEN _end_session("Service temporarily unavailable")
    ELSE IF again
    THEN WithStatus(_end_session("Service temporarily unavailable"), 500)
    ELSE IF at = "search" THEN _end_session("Sorry, none available")
    ELSE IF at = "reserve" THEN _end_session("Failed to process request")
    ELSE _end_session("Service temporarily unavailable")

\* a well-formed call during which the store raises at point `at`
UssdFault(sid, phone, text, at, again) ==
    LET caller == normalize_phone_number(phone)
        found == sid \in DOMAIN sessions
        expired == found /\ now > sessions[sid].expires_at
        loaded == _get_or_create_session(sid, caller)
        token == LastToken(text)
    IN  /\ sid \notin DOMAIN inflight
        /\ validate_ussd_request("form", sid, phone).ok
        /\ at \notin BeforeSession => loaded.ok
        /\ at = "search" =>
              /\ text # <<>>
              /\ loaded.session.current_step = "location_input"
              /\ Len(Strip(token)) >= 2
        /\ at = "reserve" =>
              /\ text # <<>>
              /\ loaded.session.current_step = "confirmation"
              /\ token = <<"1">>
        /\ at \in BeforeSession => ~again
        /\ calls' = calls + 1
        /\ users' = IF at = "get_user" THEN users ELSE users \cup {caller}
        /\ sessions' = IF at \in BeforeSession THEN sessions
                       ELSE IF again THEN PutKey(sessions, sid, loaded.session)
                       ELSE RemoveKey(sessions, sid)
        /\ last' = Answered(calls + 1, sid, caller, FaultAnswer(at, again),
                            found, expired, StartsWithin(caller))
        /\ auditLogs' = IF again THEN auditLogs
                        ELSE Append(auditLogs,
                                    UssdAuditRow(caller, ~found \/ expired))
        /\ UNCHANGED <<now, resources, requests, nameHash, inflight, am,
                       summary, drift, gateway, cleaned>>

\* cumulative texts that lead a session through its steps
FaultTexts == { <<>>, <<"1">>, Txt(<<<<"1">>, Lokoja>>) }

FaultyCall ==
    \E text \in FaultTexts, at \in FaultPoints, again \in BOOLEAN :
        /\ Idle
        /\ calls < MaxCalls
        /\ UssdFault("s1", Phone1, text, at, again)

\* a call during which nothing raises
SoundCall ==
    \E text \in FaultTexts :
        /\ Idle
        /\ calls < MaxCalls
        /\ UssdCallback("s1", Phone1, text, "form")

NextFault == SoundCall \/ Finalise \/ FaultyCall

SpecFault == Init /\ [][NextFault]_vars

SweepCall ==
    \E sid \in SessionIds, text \in {<<>>, <<"1">>} :
        /\ Idle
        /\ calls < MaxCalls
        /\ UssdCallback(sid, PhoneOf(IF sid = "s1" THEN 1 ELSE 2), text, "form")

\* a minute passes, then the session TTL
SweepTick ==
    /\ Idle
    /\ \/ now = 0 /\ Tick(1)
       \/ now = 1 /\ Tick(SessionTTL)

Sweep ==
    /\ Idle
    /\ calls < MaxCalls
    /\ cleanup_sessions

NextSweep == SweepCall \/ SweepTick \/ Sweep

SpecSweep == Init /\ [][NextSweep]_vars

\* C34: a cleanup deletes exactly the sessions that are expired by
\* is_expired at that instant, returns their number and leaves every other
\* session as it was
C34_SweepAgreesWithIsExpired ==
    [][auditLogs' = Append(auditLogs, CleanupAuditRow) =>
         /\ DOMAIN sessions' =
               { sid \in DOMAIN sessions : ~is_expired(sessions[sid]) }
         /\ \A sid \in DOMAIN sessions' : sessions'[sid] = sessions[sid]
         /\ cleaned' =
               Cardinality({ sid \in DOMAIN sessions : is_expired(sessions[sid]) })]_vars

\* C34 witness: a cleanup deleted one session and kept one that expires at
\* this very minute
C34_Witness ==
    /\ cleaned = 1
    /\ Len(auditLogs) > 0
    /\ auditLogs[Len(auditLogs)] = CleanupAuditRow
    /\ \E sid \in DOMAIN sessions : sessions[sid].expires_at = now


(***************************************************************************)
(* Claims on the update of a resource, checked on SpecUpdate               *)
(***************************************************************************)
\* the bodies a provider sends
Payloads ==
    {<<>>}
    \cup { [total_capacity |-> JsonInt(t)] : t \in 0..MaxCap }
    \cup { [available_capacity |-> a] :
              a \in { JsonInt(n) : n \in (0 - 1)..MaxCap } \cup {JsonWord} }
    \cup { [total_capacity |-> JsonInt(t), available_capacity |-> a] :
              t \in {1, MaxCap}, a \in {JsonInt(MaxCap), JsonWord} }
    \cup { [is_active |-> b] : b \in BOOLEAN }

\* a provider updates the first resource between the calls of the callers
ResourceUpdate ==
    /\ Idle
    /\ calls < MaxCalls
    /\ \E data \in Payloads : update_resource(1, data)

NextUpdate == SoundCall \/ Finalise \/ ResourceUpdate

SpecUpdate == Init /\ [][NextUpdate]_vars

\* a step of update_resource
UpdatesNow ==
    auditLogs' = Append(auditLogs, ApiAuditRow("api_resource_update"))

CapacityInRange(r) ==
    /\ 0 <= resources[r].available_capacity
    /\ resources[r].available_capacity <= resources[r].total_capacity

\* C35: after any update_resource call the resource satisfies
\* 0 <= available_capacity <= total_capacity, and a call answered with an
\* error leaves every field of the stored resource as it was
C35_UpdateKeepsCapacityRange ==
    [][UpdatesNow =>
          /\ \A r \in ResourceIds :
                CapacityInRange(r) => CapacityInRange(r)'
          /\ last'.status # 200 => resources' = resources]_vars

\* ... the part on the range alone
C35_RangeOnly ==
    [][UpdatesNow =>
          \A r \in ResourceIds : CapacityInRange(r) => CapacityInRange(r)']_vars

\* ... the part on rejected calls alone
C35_RejectedLeavesRow ==
    [][UpdatesNow /\ last'.status # 200 => resources' = resources]_vars

\* ... rejected calls that raised inside the view are rolled back
C35_RaisedLeavesRow ==
    [][UpdatesNow /\ last'.status = 500 => resources' = resources]_vars


(***************************************************************************)
(* Claims on the data a session holds at each step, checked on Spec        *)
(***************************************************************************)
Listed(data) == { data.resources[i] : i \in 1..Len(data.resources) }

HasType(data) == data.resource_type \in {"shelter", "food", "transport"}

HasListing(data) ==
    /\ HasType(data)
    /\ data.location # <<>>
    /\ data.resources # <<>>

HasChoice(data) ==
    /\ HasListing(data)
    /\ data.selected_resource_id \in Listed(data)

\* C36: the data of a stored session is sufficient for its step: at
\* location_input it holds a resource type; at resource_selection also a
\* location and a non-empty list of candidate ids; at confirmation also a
\* chosen resource id that is one of the listed candidates
C36_DataSufficientForStep ==
    \A sid \in DOMAIN sessions :
        LET session == sessions[sid]
        IN  /\ session.current_step = "location_input" => HasType(session.data)
            /\ session.current_step = "resource_selection" =>
                  HasListing(session.data)
            /\ session.current_step = "confirmation" => HasChoice(session.data)

\* a session has been taken through the menu, the location and the list to
\* the confirmation
C36_Witness ==
    /\ "s1" \in DOMAIN sessions
    /\ sessions["s1"].current_step = "confirmation"
    /\ HasChoice(sessions["s1"].data)
    /\ calls >= 4


(***************************************************************************)
(* Claims on the owner of a session, checked on SpecShared                 *)
(***************************************************************************)
\* calls of two callers that carry the same session id
SharedCall ==
    \E caller \in Callers, text \in FaultTexts :
        /\ Idle
        /\ calls < MaxCalls
        /\ UssdCallback("s1", PhoneOf(caller), text, "form")

NextShared == SharedCall \/ Finalise

SpecShared == Init /\ [][NextShared]_vars

\* a call with session id sid has been answered for a caller who is not the
\* owner of the stored, non-expired session
AnsweredStranger(sid) ==
    /\ sid \in DOMAIN sessions
    /\ ~is_expired(sessions[sid])
    /\ last'.n # last.n
    /\ last'.sid = sid
    /\ last'.caller \notin {NoUser, sessions[sid].user_id}

\* the handler of session sid creates a request in this step
CreatesRequest(sid) ==
    /\ sid \in DOMAIN inflight
    /\ sid \notin DOMAIN inflight'
    /\ sid \in DOMAIN sessions
    /\ Len(requests') = Len(requests) + 1

\* C37: a stored session is advanced only by its owner: a call with the id of
\* a stored, non-expired session and another caller's phone leaves the step
\* and the selections of that session as they were, and a request created
\* from the selections of a session is created for the owner of the session
C37_OnlyOwnerAdvances ==
    [][\A sid \in SessionIds :
          /\ AnsweredStranger(sid) =>
                /\ sid \in DOMAIN sessions'
                /\ sessions'[sid].current_step = sessions[sid].current_step
                /\ sessions'[sid].data = sessions[sid].data
          /\ CreatesRequest(sid) =>
                requests'[Len(requests')].user_id = sessions[sid].user_id]_vars

\* ... the part on the created request alone
C37_RequestForOwner ==
    [][\A sid \in SessionIds :
          CreatesRequest(sid) =>
             requests'[Len(requests')].user_id = sessions[sid].user_id]_vars


(***************************************************************************)
(* Claims on the confirmation as a unit, checked on SpecUnit               *)
(***************************************************************************)
\* ConfirmCommit when the store raises after db.session.commit(): in the
\* refresh of the committed rows for the summary or in the delete of the
\* session row by _end_session, both inside the try block.  The except
\* branch rolls back, which undoes nothing of the committed transaction, and
\* calls _end_session once more; again: that call raises as well, and so
\* does the one in the except branch of process_request, and ussd_callback
\* answers with status 500
ConfirmCommitThenRaise(sid, again) ==
    /\ sid \in DOMAIN inflight
    /\ inflight[sid].pc = "commit"
    /\ LET f == inflight[sid]
           reserved == update_capacity(f.resource, 1)
           emergency_request ==
               [NewRequest(f.user_id, f.session.data.resource_type,
                           f.session.data.location, f.resource_id,
                           f.resource.price_per_unit)
                EXCEPT !.status = "matched", !.matched_at = now]
       IN  /\ requests' = Append(requests, emergency_request)
           /\ resources' = IF reserved.ok
                           THEN [resources EXCEPT
                                   ![f.resource_id].available_capacity =
                                       reserved.resource.available_capacity]
                           ELSE resources
           /\ sessions' = IF again THEN sessions ELSE RemoveKey(sessions, sid)
           /\ inflight' = RemoveKey(inflight, sid)
           /\ last' = Finished(f,
                  IF again
                  THEN WithStatus(_end_session("Service temporarily unavailable"), 500)
                  ELSE _end_session("Failed to process request"))
           /\ auditLogs' = IF again THEN auditLogs
                           ELSE Append(auditLogs, UssdAuditRow(f.user_id, FALSE))
    /\ UNCHANGED <<now, calls, users, nameHash, am, summary, drift, gateway, cleaned>>

\* the store raises after the commit of a confirmation
FinaliseThenRaise ==
    \E sid \in SessionIds, again \in BOOLEAN : ConfirmCommitThenRaise(sid, again)

\* the store raises inside the try block before the commit of a confirmation
ConfirmRaises ==
    \E sid \in SessionIds, again \in BOOLEAN :
        /\ Idle
        /\ sid \in DOMAIN sessions
        /\ calls < MaxCalls
        /\ UssdFault(sid, PhoneOf(sessions[sid].user_id), ConfirmText, "reserve", again)

\* confirmations that succeed, that are refused, and that raise before the
\* commit
NextUnitSound == DupCall \/ Finalise \/ ConfirmRaises

SpecUnitSound == InitNotify /\ [][NextUnitSound]_vars

\* ... and that raise after the commit
NextUnit == NextUnitSound \/ FinaliseThenRaise

SpecUnit == InitNotify /\ [][NextUnit]_vars

\* a call is answered in this step with something else than the summary of
\* a confirmed request
AnsweredUnconfirmed ==
    /\ last'.n # last.n
    /\ last'.message # "Request confirmed!"

Capacity == [r \in ResourceIds |-> resources[r].available_capacity]

\* C38: a call with token 1 at the confirmation step that is answered with
\* anything but the summary of the confirmed request (resource unavailable,
\* duplicate, failed to process) has created no request and changed no
\* available capacity
C38_ConfirmationAllOrNothing ==
    [][AnsweredUnconfirmed =>
          /\ requests' = requests
          /\ Capacity' = Capacity]_vars


(***************************************************************************)
(* Claims on overlapping auto-match runs, checked on SpecStatus            *)
(***************************************************************************)
\* run a commits in this step
RunCommits(a) == a \in DOMAIN am /\ a \notin DOMAIN am'

\* the units this step takes from resource r
Taken(r) == resources[r].available_capacity - resources'[r].available_capacity

\* a request that has been matched keeps its resource and its matching time
MatchedStays(i) ==
    requests[i].status # "pending" =>
        /\ requests'[i].resource_id = requests[i].resource_id
        /\ requests'[i].matched_at = requests[i].matched_at

\* C39: with two auto-match runs under way, a pending request is matched at
\* most once: once matched it keeps its single resource id, and the commit
\* of a run takes from every resource exactly the quantities of the requests
\* it moves from pending to matched with that resource
C39_MatchedOnce ==
    [][\A a \in Runners :
          RunCommits(a) =>
             /\ \A i \in 1..Len(requests) : MatchedStays(i)
             /\ \A r \in ResourceIds : Taken(r) = SumRequested(MatchedNow(r))]_vars

\* ... no more than once: a run may take less than a request asks for (a
\* request is marked matched also when the reservation failed), but never
\* takes units for a request that was matched before
C39_NoSecondTaking ==
    [][\A a \in Runners :
          RunCommits(a) =>
             /\ \A i \in 1..Len(requests) : MatchedStays(i)
             /\ \A r \in ResourceIds : Taken(r) <= SumRequested(MatchedNow(r))]_vars


(***************************************************************************)
(* Claims on confirmations of one caller in two sessions, on SpecTwin      *)
(***************************************************************************)
\* the caller of InitDup confirms in both sessions, one call possibly
\* arriving while the other is between its duplicate check and its commit
NextTwin == RaceCall \/ Finalise \/ DupWait

SpecTwin == InitDup /\ [][NextTwin]_vars

\* two requests a caller confirmed for the same type and location text less
\* than DuplicateWindow minutes apart, neither of them cancelled
Twins(i, j) ==
    /\ i # j
    /\ requests[i].origin = "ussd"
    /\ requests[j].origin = "ussd"
    /\ requests[i].status # "cancelled"
    /\ requests[j].status # "cancelled"
    /\ requests[i].user_id = requests[j].user_id
    /\ requests[i].resource_type = requests[j].resource_type
    /\ requests[i].location = requests[j].location
    /\ requests[i].created_at - requests[j].created_at < DuplicateWindow
    /\ requests[j].created_at - requests[i].created_at < DuplicateWindow

\* C40: in every reachable state, also when a caller confirms in two
\* sessions at the same time, no two non-cancelled requests created by a
\* confirmation for the same caller, resource type and location text lie
\* less than 30 minutes apart
C40_NoTwinRequests ==
    \A i, j \in 1..Len(requests) : ~Twins(i, j)

====
